---------------------------- MODULE Spec2Model ----------------------------
(***************************************************************************)
(* Smart Announcements: the Announcer (announcer.py) and the RoomTracker   *)
(* (room_tracker.py) as a state machine.  One announce request is resolved *)
(* to its target rooms and the rooms are processed one after another; the  *)
(* host's capability calls (conversation.process, media_player.play_media, *)
(* tts.speak, logbook.log) are suspension points whose outcome the host    *)
(* decides.                                                                *)
(***************************************************************************)
EXTENDS Integers, Sequences, FiniteSets, TLC

(***************************************************************************)
(* Strings.  A Python string is kept as a record of what the code's string *)
(* operations can tell apart: its letters b (lower-cased, words joined),   *)
(* the word separator u ("" for one word, "_" or " "), its case c          *)
(* ("lo", "Ti", "UP"), whether it carries surrounding blanks (pad) and     *)
(* whether it starts with "person." (pre).  None and "" are both the       *)
(* falsy NoStr.                                                            *)
(***************************************************************************)
Str(b, u, c) == [b |-> b, u |-> u, c |-> c, pad |-> FALSE, pre |-> FALSE]

NoStr == Str("", "", "lo")

Truthy(s) == s.b # ""

\* str.lower()
Lower(s) == IF Truthy(s) THEN [s EXCEPT !.c = "lo"] ELSE s

\* str.strip()
Strip(s) == [s EXCEPT !.pad = FALSE]

\* str.replace("person.", "")
DropPersonPrefix(s) == [s EXCEPT !.pre = FALSE]

\* str.replace("_", " ")
UnderscoresToSpaces(s) == IF s.u = "_" THEN [s EXCEPT !.u = " "] ELSE s

\* str.title()
Title(s) == IF Truthy(s) THEN [s EXCEPT !.c = "Ti"] ELSE s

Padded(s) == [s EXCEPT !.pad = TRUE]

PersonId(b, u) == [b |-> b, u |-> u, c |-> "lo", pad |-> FALSE, pre |-> TRUE]

(***************************************************************************)
(* The configuration entry (entry.data): rooms, people, group settings.    *)
(***************************************************************************)
\* config[CONF_ROOMS]: the office area was renamed Study and kept its id; a
\* later area took the name Office.  The third room has no media player.
ROOMS ==
    << [area_id |-> Str("kitchen", "", "lo"), room_name |-> Str("kitchen", "", "Ti"),
        media_player |-> Str("speaker_kitchen", "", "lo"), presence_sensors |-> <<"s_kitchen">>],
       [area_id |-> Str("office", "", "lo"), room_name |-> Str("study", "", "Ti"),
        media_player |-> Str("speaker_study", "", "lo"), presence_sensors |-> << >>],
       [area_id |-> Str("office2", "_", "lo"), room_name |-> Str("office", "", "Ti"),
        media_player |-> NoStr, presence_sensors |-> <<"s_office">>] >>

\* config[CONF_PEOPLE]
PEOPLE ==
    << [person_entity |-> PersonId("mike", ""), room_tracking_entity |-> "sensor.mike_area",
        conversation_entity |-> Str("agent_mike", "", "lo"), language |-> "spanish",
        tts_platform |-> Str("tts_piper", "", "lo"), tts_voice |-> Str("voice_mike", "", "lo"),
        enhance_with_ai |-> TRUE, translate_announcement |-> FALSE],
       [person_entity |-> PersonId("anna", ""), room_tracking_entity |-> "sensor.anna_area",
        conversation_entity |-> NoStr, language |-> "french",
        tts_platform |-> Str("tts_piper", "", "lo"), tts_voice |-> NoStr,
        enhance_with_ai |-> TRUE, translate_announcement |-> TRUE] >>

\* config["group"]
GROUP ==
    [group_conversation_entity |-> Str("agent_group", "", "lo"), group_language |-> "english",
     group_tts_platform |-> NoStr, group_tts_voice |-> NoStr,
     group_enhance_with_ai |-> FALSE, group_translate_announcement |-> FALSE,
     group_addressee |-> Str("everyone", "", "Ti")]

\* The host's area registry: every area of the house, configured as a room or not.
AREAS ==
    { [id |-> Str("kitchen", "", "lo"), name |-> Str("kitchen", "", "Ti")],
      [id |-> Str("office", "", "lo"), name |-> Str("study", "", "Ti")],
      [id |-> Str("office2", "_", "lo"), name |-> Str("office", "", "Ti")],
      [id |-> Str("garden", "", "lo"), name |-> Str("garden", "", "Ti")],
      [id |-> Str("home", "", "lo"), name |-> Str("home", "", "Ti")] }

\* The friendly_name attribute of the host's person entities.
FRIENDLY ==
    [e \in {PersonId("mike", ""), PersonId("anna", "")} |->
        IF e.b = "mike" THEN Str("mike", "", "Ti") ELSE Str("anna", "", "Ti")]

RoomIdx == 1..Len(ROOMS)
PersonIdx == 1..Len(PEOPLE)
RoomIds == {ROOMS[i].area_id : i \in RoomIdx}
PersonIds == {PEOPLE[i].person_entity : i \in PersonIdx}
Sensors == {"s_kitchen", "s_office"}

NoRoom == [area_id |-> NoStr, room_name |-> NoStr, media_player |-> NoStr,
           presence_sensors |-> << >>]
NoPerson == [person_entity |-> NoStr, room_tracking_entity |-> "",
             conversation_entity |-> NoStr, language |-> "",
             tts_platform |-> NoStr, tts_voice |-> NoStr,
             enhance_with_ai |-> FALSE, translate_announcement |-> FALSE]

VARIABLES
    personState,    \* hass.states of the person entities: "home", "not_home"
    tracker,        \* hass.states of the room tracking entities
    sensorState,    \* hass.states of the occupancy sensors: "on", "off"
    enabled,        \* hass.data[DOMAIN][entry_id]["enabled"]
    entry_data,     \* the global toggles of entry.data
    request,        \* the arguments of the running async_announce
    pc,             \* where async_announce stands
    err,            \* the error async_announce raised, "" when none
    target_rooms,   \* the list _resolve_targets returned
    idx,            \* the room of target_rooms being processed
    cur,            \* the locals of the running _announce_to_room
    log,            \* every capability call, return, delay and event so far
    person_room,    \* the last call of async_get_person_room and its return
    lookup,         \* the last call of _get_person_config and its return
    is_on,          \* _attr_is_on of the person and room switches
    switch_call,    \* the last turn_on or turn_off call and how it ended
    hass_data,      \* the entry ids that are keys of hass.data[DOMAIN]
    service,        \* the entry the registered announce handler closed over, "" when none
    adding,         \* the entries whose switches are not yet added to the host
    dispatch,       \* the last call of the announce service and what became of it
    conc            \* two requests on one Announcer, for the interleaving of their awaits

vars == <<personState, tracker, sensorState, enabled, entry_data, request,
          pc, err, target_rooms, idx, cur, log, person_room, lookup,
          is_on, switch_call, hass_data, service, adding, dispatch, conc>>

env == <<personState, tracker, sensorState, enabled, entry_data>>

\* What a running async_announce never writes.
side == <<person_room, lookup, is_on, switch_call, hass_data, service, adding,
          dispatch, conc>>

\* The parts of side, for the specifications that write one of them.
switchVars == <<is_on, switch_call>>

entryVars == <<hass_data, service, adding, dispatch>>

(***************************************************************************)
(* RoomTracker (room_tracker.py)                                           *)
(***************************************************************************)
\* RoomTracker._get_person_config: the person whose person_entity is the id.
TrackerPersonConfig(person_entity) ==
    LET hits == { i \in PersonIdx : PEOPLE[i].person_entity = person_entity } IN
    IF hits = {} THEN NoPerson
    ELSE PEOPLE[CHOOSE i \in hits : \A j \in hits : i <= j]

\* The room tracking states that are never room names.
ReservedStates ==
    { Str("home", "", "lo"), Str("nothome", "_", "lo"), Str("unknown", "", "lo"),
      Str("unavailable", "", "lo"), Str("none", "", "lo") }

\* areas = {area.name.lower(): area.id ...}; areas.get(name), NoStr when absent.
AreaIdByLowerName(name) ==
    LET hits == { a \in AREAS : Lower(a.name) = name } IN
    IF hits = {} THEN NoStr ELSE (CHOOSE a \in hits : TRUE).id

\* RoomTracker._get_area_from_entity, on the state of the tracking entity.
GetAreaFromEntity(st) ==
    LET by_state == IF st.exists /\ Lower(st.state) \notin ReservedStates
                    THEN AreaIdByLowerName(Lower(st.state)) ELSE NoStr
        by_area == IF st.exists /\ Truthy(st.area)
                   THEN AreaIdByLowerName(Lower(st.area)) ELSE NoStr
        by_room == IF st.exists /\ Truthy(st.room)
                   THEN AreaIdByLowerName(Lower(st.room)) ELSE NoStr
    IN IF ~st.exists THEN NoStr
       ELSE IF Truthy(by_state) THEN by_state
       ELSE IF Truthy(by_area) THEN by_area
       ELSE IF Truthy(by_room) THEN by_room
       ELSE NoStr

\* Announcer._get_room_config and the room search of _verify_presence: the
\* first configured room with this area id.
GetRoomConfig(area_id) ==
    LET hits == { i \in RoomIdx : ROOMS[i].area_id = area_id } IN
    IF hits = {} THEN NoRoom
    ELSE ROOMS[CHOOSE i \in hits : \A j \in hits : i <= j]

AnySensorOn(sensors) ==
    \E k \in 1..Len(sensors) : sensorState[sensors[k]] = "on"

\* A variant of _verify_presence that takes a room without sensors, or an
\* area that is no configured room, as empty.
VerifyPresenceNeedsSensor(area_id) ==
    LET room_config == GetRoomConfig(area_id) IN
    /\ room_config # NoRoom
    /\ AnySensorOn(room_config.presence_sensors)

\* RoomTracker._verify_presence
VerifyPresence(area_id) ==
    LET room_config == GetRoomConfig(area_id) IN
    IF room_config = NoRoom THEN TRUE
    ELSE IF room_config.presence_sensors = << >> THEN TRUE
    ELSE AnySensorOn(room_config.presence_sensors)

\* A variant of async_get_person_room without the check of the person's
\* state: the tracking entity is read for people who are away as well.
GetPersonRoomWithoutHomeCheck(person_entity) ==
    LET person_config == TrackerPersonConfig(person_entity) IN
    IF person_config = NoPerson THEN NoStr
    ELSE IF person_config.room_tracking_entity = "" THEN NoStr
    ELSE IF personState[person_entity] = "missing" THEN NoStr
    ELSE LET area_id == GetAreaFromEntity(tracker[person_entity]) IN
         IF Truthy(area_id)
         THEN IF entry_data.presence_verification
              THEN IF VerifyPresence(area_id) THEN area_id ELSE NoStr
              ELSE area_id
         ELSE NoStr

\* Whether async_get_person_room gets as far as its _get_area_from_entity
\* call, the one place where the tracking entity is read.
ReadsTrackingEntity(person_entity) ==
    LET person_config == TrackerPersonConfig(person_entity) IN
    /\ person_config # NoPerson
    /\ person_config.room_tracking_entity # ""
    /\ personState[person_entity] # "missing"
    /\ personState[person_entity] = "home"

\* RoomTracker.async_get_person_room: NoStr stands for None.
GetPersonRoom(person_entity) ==
    LET person_config == TrackerPersonConfig(person_entity) IN
    IF person_config = NoPerson THEN NoStr
    ELSE IF person_config.room_tracking_entity = "" THEN NoStr
    ELSE IF personState[person_entity] = "missing" THEN NoStr
    ELSE IF personState[person_entity] # "home" THEN NoStr
    ELSE LET area_id == GetAreaFromEntity(tracker[person_entity]) IN
         IF Truthy(area_id)
         THEN IF entry_data.presence_verification
              THEN IF VerifyPresence(area_id) THEN area_id ELSE NoStr
              ELSE area_id
         ELSE NoStr

\* RoomTracker.async_get_rooms_with_presence
RoomsWithPresence ==
    { ROOMS[i].area_id : i \in
        { j \in RoomIdx : /\ Truthy(ROOMS[j].area_id)
                          /\ ROOMS[j].presence_sensors # << >>
                          /\ AnySensorOn(ROOMS[j].presence_sensors) } }

\* RoomTracker.async_get_rooms_with_tracked_people
RoomsWithTrackedPeople ==
    { GetPersonRoom(PEOPLE[i].person_entity) :
        i \in { j \in PersonIdx : Truthy(PEOPLE[j].person_entity) } } \ { NoStr }

\* A variant of async_get_occupied_rooms that asks the sensors only when
\* tracking is not used.
GetOccupiedRoomsTrackingFirst(use_tracking, use_presence) ==
    IF use_tracking THEN RoomsWithTrackedPeople
    ELSE IF use_presence THEN RoomsWithPresence ELSE {}

\* RoomTracker.async_get_occupied_rooms
GetOccupiedRooms(use_tracking, use_presence) ==
    (IF use_presence THEN RoomsWithPresence ELSE {})
        \cup (IF use_tracking THEN RoomsWithTrackedPeople ELSE {})

\* The subsequence of s whose elements satisfy Test, in order.
RECURSIVE SelectIdx(_, _, _)
SelectIdx(n, i, keep) ==
    IF i > n THEN << >>
    ELSE (IF i \in keep THEN <<i>> ELSE << >>) \o SelectIdx(n, i + 1, keep)

\* RoomTracker.async_get_people_in_room: person ids in configuration order.
GetPeopleInRoom(area_id) ==
    LET keep == { i \in PersonIdx : /\ Truthy(PEOPLE[i].person_entity)
                                    /\ GetPersonRoom(PEOPLE[i].person_entity) = area_id }
        order == SelectIdx(Len(PEOPLE), 1, keep)
    IN [k \in 1..Len(order) |-> PEOPLE[order[k]].person_entity]

(***************************************************************************)
(* Announcer (announcer.py): lookups and gates                             *)
(***************************************************************************)
\* config_flow.get_person_friendly_name
GetPersonFriendlyName(person_entity) ==
    IF /\ person_entity \in DOMAIN FRIENDLY
       /\ personState[person_entity] # "missing"
       /\ Truthy(FRIENDLY[person_entity])
    THEN FRIENDLY[person_entity]
    ELSE Title(UnderscoresToSpaces(DropPersonPrefix(person_entity)))

\* The tests _get_person_config makes on one configured person: the entity
\* id itself, the friendly name, the id without "person.", and that with
\* underscores turned into spaces; the last three in lower case.
PersonMatchesWith(entity_id, friendly_name, person_name) ==
    LET name_from_entity == Lower(DropPersonPrefix(entity_id))
    IN \/ Truthy(entity_id) /\ entity_id = person_name
       \/ /\ Truthy(entity_id)
          /\ Truthy(friendly_name)
          /\ Lower(friendly_name) = Lower(person_name)
       \/ name_from_entity = Lower(person_name)
       \/ UnderscoresToSpaces(name_from_entity) = Lower(person_name)

\* config_flow.get_person_friendly_name on an entity whose friendly_name
\* attribute is attr (NoStr when the entity or the attribute is missing).
FriendlyNameOf(attr, entity_id) ==
    IF Truthy(attr) THEN attr
    ELSE Title(UnderscoresToSpaces(DropPersonPrefix(entity_id)))

\* Announcer._get_person_config over a list of people, each with its
\* person_entity and the friendly_name attribute of that entity: the place
\* of the first person that passes a test, 0 for None.
GetPersonConfigIn(people, person_name) ==
    LET hits == { i \in 1..Len(people) :
                    PersonMatchesWith(people[i].person_entity,
                                      FriendlyNameOf(people[i].friendly_name,
                                                     people[i].person_entity),
                                      person_name) }
    IN IF hits = {} THEN 0 ELSE CHOOSE i \in hits : \A j \in hits : i <= j

\* One pass of the loop of Announcer._get_person_config: the four ways a
\* configured person can match the given name.
PersonMatches(person, person_name) ==
    PersonMatchesWith(person.person_entity, GetPersonFriendlyName(person.person_entity),
                      person_name)

\* Announcer._get_person_config on one name: the first configured person that
\* matches, NoPerson for None.
GetPersonConfigByName(person_name) ==
    LET hits == { i \in PersonIdx : PersonMatches(PEOPLE[i], person_name) } IN
    IF hits = {} THEN NoPerson
    ELSE PEOPLE[CHOOSE i \in hits : \A j \in hits : i <= j]

\* A target_person argument is the sequence of its comma-separated pieces,
\* << >> for None.  A string of two or more pieces holds a comma, which no
\* person id or friendly name does, so it matches nobody.
GetPersonConfig(target_person) ==
    IF Len(target_person) = 1 THEN GetPersonConfigByName(target_person[1])
    ELSE NoPerson

\* Announcer._is_person_enabled: enabled.get("people", {}).get(id, True)
IsPersonEnabled(person_entity) ==
    IF person_entity \in DOMAIN enabled.people
    THEN enabled.people[person_entity] # "off"
    ELSE TRUE

\* Announcer._is_room_enabled: enabled.get("rooms", {}).get(area_id, True)
IsRoomEnabled(area_id) ==
    IF area_id \in DOMAIN enabled.rooms
    THEN enabled.rooms[area_id] # "off"
    ELSE TRUE

(***************************************************************************)
(* Announcer._resolve_targets                                              *)
(***************************************************************************)
\* A per-call override ("none" when not given), else the configured value.
Effective(override, configured) ==
    IF override # "none" THEN override = "true" ELSE configured

EffRoomTracking == Effective(request.room_tracking, entry_data.room_tracking)

EffPresenceVerification ==
    Effective(request.presence_verification, entry_data.presence_verification)

\* An entry of the list _resolve_targets returns: the room's configuration
\* and, on the target-person path only, the keys target_person and
\* targeted_people.
TargetEntry(room, has_tp, tp, people) ==
    [room |-> room, has_target_person |-> has_tp, target_person |-> tp,
     targeted_people |-> people]

PlainEntries(keep) ==
    LET order == SelectIdx(Len(ROOMS), 1, keep)
    IN [k \in 1..Len(order) |-> TargetEntry(ROOMS[order[k]], FALSE, << >>, << >>)]

\* A variant of matching_rooms that compares the area id only.
MatchingRoomsByIdOnly(target_area) ==
    { i \in RoomIdx : Lower(ROOMS[i].area_id) = Lower(target_area) }

\* matching_rooms of the target_area branch
MatchingRooms(target_area) ==
    { i \in RoomIdx : \/ Lower(ROOMS[i].room_name) = Lower(target_area)
                      \/ Lower(ROOMS[i].area_id) = Lower(target_area) }

\* target_people = [name.strip() for name in target_person.split(",")]
SplitAndStrip(target_person) ==
    [k \in 1..Len(target_person) |-> Strip(target_person[k])]

\* A variant of the room map that starts a new entry for every person, also
\* for a room that has one.
AddToRoomNoMerge(room_to_people, room_id, person_name) ==
    Append(room_to_people, [room_id |-> room_id, people |-> <<person_name>>])

\* room_to_people[room_id].append(person_name), room_to_people being a dict
\* in insertion order, kept as a sequence of [room_id, people].
AddToRoom(room_to_people, room_id, person_name) ==
    IF \E k \in 1..Len(room_to_people) : room_to_people[k].room_id = room_id
    THEN [k \in 1..Len(room_to_people) |->
            IF room_to_people[k].room_id = room_id
            THEN [room_to_people[k] EXCEPT !.people = Append(@, person_name)]
            ELSE room_to_people[k]]
    ELSE Append(room_to_people, [room_id |-> room_id, people |-> <<person_name>>])

\* A variant of the first loop that passes over a name that is no configured
\* person instead of raising.
RECURSIVE CollectRoomsLenient(_, _, _)
CollectRoomsLenient(target_people, i, room_to_people) ==
    IF i > Len(target_people) THEN [raised |-> FALSE, room_to_people |-> room_to_people]
    ELSE CHOOSE result \in
        { CollectRoomsLenient(target_people, i + 1,
             CHOOSE next \in
                { IF person_config # NoPerson /\ Truthy(room_id)
                     /\ GetRoomConfig(room_id) # NoRoom
                  THEN AddToRoom(room_to_people, room_id, target_people[i])
                  ELSE room_to_people
                  : room_id \in { IF EffRoomTracking /\ person_config # NoPerson
                                  THEN GetPersonRoom(person_config.person_entity)
                                  ELSE NoStr } } : TRUE)
          : person_config \in { GetPersonConfigByName(target_people[i]) } } : TRUE

\* The first loop of the target_person branch from name i on: stops with
\* raised at the first name that is no configured person.
RECURSIVE CollectRooms(_, _, _)
CollectRooms(target_people, i, room_to_people) ==
    IF i > Len(target_people) THEN [raised |-> FALSE, room_to_people |-> room_to_people]
    ELSE CHOOSE result \in
        { IF person_config = NoPerson
          THEN [raised |-> TRUE, room_to_people |-> room_to_people]
          ELSE CollectRooms(target_people, i + 1,
                 CHOOSE next \in
                    { IF Truthy(room_id) /\ GetRoomConfig(room_id) # NoRoom
                      THEN AddToRoom(room_to_people, room_id, target_people[i])
                      ELSE room_to_people
                      : room_id \in { IF EffRoomTracking
                                      THEN GetPersonRoom(person_config.person_entity)
                                      ELSE NoStr } } : TRUE)
          : person_config \in { GetPersonConfigByName(target_people[i]) } } : TRUE

\* A variant of the build loop that names the first person of a room as its
\* target even when several targeted people share the room.
RoomsWithTargetsFirstPerson(room_to_people) ==
    [k \in 1..Len(room_to_people) |->
        TargetEntry(GetRoomConfig(room_to_people[k].room_id), TRUE,
                    <<room_to_people[k].people[1]>>, room_to_people[k].people)]

\* target_rooms built from room_to_people
RoomsWithTargets(room_to_people) ==
    [k \in 1..Len(room_to_people) |->
        TargetEntry(GetRoomConfig(room_to_people[k].room_id), TRUE,
                    IF Len(room_to_people[k].people) = 1
                    THEN <<room_to_people[k].people[1]>> ELSE << >>,
                    room_to_people[k].people)]

\* The fallback loop: some targeted person is configured and home.
SomeTargetHome(target_people) ==
    \E k \in 1..Len(target_people) :
        LET person_config == GetPersonConfigByName(target_people[k]) IN
        /\ person_config # NoPerson
        /\ personState[person_config.person_entity] = "home"

\* A variant of the fallback that broadcasts to every room with a media
\* player when neither tracking nor presence is in effect.
OccupiedEntriesOrBroadcast ==
    IF EffRoomTracking \/ EffPresenceVerification
    THEN PlainEntries({ i \in RoomIdx :
            ROOMS[i].area_id \in GetOccupiedRooms(EffRoomTracking, EffPresenceVerification) })
    ELSE PlainEntries({ i \in RoomIdx : Truthy(ROOMS[i].media_player) })

OccupiedEntries ==
    PlainEntries({ i \in RoomIdx :
        ROOMS[i].area_id \in GetOccupiedRooms(EffRoomTracking, EffPresenceVerification) })

\* Announcer._resolve_targets: the error raised ("" when none) and the list.
ResolveTargets ==
    CHOOSE result \in
        { IF Truthy(request.target_area)
          THEN IF matching_rooms = {}
               THEN [raised |-> "unconfigured_area", rooms |-> << >>]
               ELSE [raised |-> "", rooms |-> PlainEntries(matching_rooms)]
          ELSE IF target_people # << >> /\ got.raised
          THEN [raised |-> "unconfigured_person", rooms |-> << >>]
          ELSE IF target_people # << >> /\ got.room_to_people # << >>
          THEN [raised |-> "", rooms |-> RoomsWithTargets(got.room_to_people)]
          ELSE IF target_people # << >> /\ ~SomeTargetHome(target_people)
          THEN [raised |-> "", rooms |-> << >>]
          ELSE IF target_people # << >> \/ EffRoomTracking \/ EffPresenceVerification
          THEN [raised |-> "", rooms |-> OccupiedEntries]
          ELSE [raised |-> "",
                rooms |-> PlainEntries({ i \in RoomIdx : Truthy(ROOMS[i].media_player) })]
          : matching_rooms \in { MatchingRooms(request.target_area) },
            target_people \in { SplitAndStrip(request.target_person) },
            got \in { CollectRooms(SplitAndStrip(request.target_person), 1, << >>) } } : TRUE

\* A variant that reports every empty target list as an unconfigured person.
NoTargetErrorGeneric == "unconfigured_person"

\* The error async_announce raises for an empty target list.
NoTargetError ==
    IF request.target_person # << >> THEN "person_not_home"
    ELSE IF Truthy(request.target_area) THEN "area_no_rooms"
    ELSE "no_occupied_rooms"

(***************************************************************************)
(* Announcer: settings, personalization, the capability calls              *)
(***************************************************************************)
PersonSettings(person_config) ==
    [conversation_entity |-> person_config.conversation_entity,
     language |-> person_config.language,
     tts_platform |-> person_config.tts_platform,
     tts_voice |-> person_config.tts_voice,
     enhance_with_ai |-> person_config.enhance_with_ai,
     translate_announcement |-> person_config.translate_announcement,
     source |-> "person"]

GroupSettings(source) ==
    [conversation_entity |-> GROUP.group_conversation_entity,
     language |-> GROUP.group_language,
     tts_platform |-> GROUP.group_tts_platform,
     tts_voice |-> GROUP.group_tts_voice,
     enhance_with_ai |-> GROUP.group_enhance_with_ai,
     translate_announcement |-> GROUP.group_translate_announcement,
     source |-> source]

\* A variant of _get_announcement_settings that looks at the occupants
\* before it looks at the group: the first occupant's settings for any
\* occupied room.
GetAnnouncementSettingsOccupantFirst(target_person, people_in_room, is_group_room) ==
    LET target_config == GetPersonConfig(target_person)
        occupant_config == IF Len(people_in_room) >= 1
                           THEN GetPersonConfig(<<people_in_room[1]>>) ELSE NoPerson
    IN IF target_person # << >> /\ target_config # NoPerson
       THEN PersonSettings(target_config)
       ELSE IF occupant_config # NoPerson THEN PersonSettings(occupant_config)
       ELSE GroupSettings("group(fallback)")

\* Announcer._get_announcement_settings
GetAnnouncementSettings(target_person, people_in_room, is_group_room) ==
    LET target_config == GetPersonConfig(target_person)
        occupant_config == IF Len(people_in_room) = 1
                           THEN GetPersonConfig(<<people_in_room[1]>>) ELSE NoPerson
    IN IF target_person # << >> /\ target_config # NoPerson
       THEN PersonSettings(target_config)
       ELSE IF is_group_room THEN GroupSettings("group")
       ELSE IF Len(people_in_room) = 1 /\ occupant_config # NoPerson
       THEN PersonSettings(occupant_config)
       ELSE GroupSettings("group(fallback)")

\* A message text: whether the {{ name }} placeholder is still in it, the
\* name put into it and how, and the AI template that rewrote it.
Text(ph) ==
    [ph |-> ph, name |-> << >>, form |-> "same", ai |-> "none", lang |-> ""]

\* The name _personalize_message resolves, << >> for None.
ResolvedName(target_person, people_in_room, is_group_room) ==
    LET person_config == IF target_person # << >> THEN GetPersonConfig(target_person)
                         ELSE IF Len(people_in_room) = 1
                         THEN GetPersonConfig(<<people_in_room[1]>>)
                         ELSE NoPerson
        given == IF target_person # << >> THEN target_person
                 ELSE IF Len(people_in_room) = 1 THEN <<people_in_room[1]>>
                 ELSE << >>
        own_name == IF person_config # NoPerson
                    THEN IF Truthy(person_config.person_entity)
                         THEN <<GetPersonFriendlyName(person_config.person_entity)>>
                         ELSE given
                    ELSE given
    IN IF target_person # << >> THEN own_name
       ELSE IF is_group_room THEN <<GROUP.group_addressee>>
       ELSE IF Len(people_in_room) = 1 THEN own_name
       ELSE << >>

\* A variant of _personalize_message without the fallback of its placeholder
\* branch: a message whose placeholder finds no name is returned as it came.
PersonalizeMessageNoFallback(message, target_person, people_in_room, is_group_room) ==
    CHOOSE text \in
        { IF name = << >> THEN message
          ELSE IF message.ph
          THEN [message EXCEPT !.ph = FALSE, !.name = name, !.form = "subst"]
          ELSE [message EXCEPT !.name = name, !.form = "prepend"]
          : name \in { ResolvedName(target_person, people_in_room, is_group_room) } } : TRUE

\* Announcer._personalize_message
PersonalizeMessage(message, target_person, people_in_room, is_group_room) ==
    CHOOSE text \in
        { IF message.ph
          THEN IF name # << >>
               THEN [message EXCEPT !.ph = FALSE, !.name = name, !.form = "subst"]
               ELSE [message EXCEPT !.ph = FALSE, !.name = <<GROUP.group_addressee>>,
                                    !.form = "subst"]
          ELSE IF name # << >>
          THEN [message EXCEPT !.name = name, !.form = "prepend"]
          ELSE message
          : name \in { ResolvedName(target_person, people_in_room, is_group_room) } } : TRUE

\* should_enhance, should_translate of _announce_to_room
ShouldEnhance(settings) == Effective(request.enhance_with_ai, settings.enhance_with_ai)

ShouldTranslate(settings) ==
    Effective(request.translate_announcement, settings.translate_announcement)

\* A variant of _enhance_message without the check of its conversation
\* entity: the call is made whenever a flag is in effect.
CallsAIWithoutAgentCheck(settings) ==
    ShouldEnhance(settings) \/ ShouldTranslate(settings)

\* Whether _enhance_message reaches its conversation.process call.
CallsAI(settings) ==
    /\ ShouldEnhance(settings) \/ ShouldTranslate(settings)
    /\ Truthy(settings.conversation_entity)

\* The prompt template _enhance_message formats.
PromptKind(settings) ==
    IF ~ShouldEnhance(settings) /\ ShouldTranslate(settings) THEN "translate"
    ELSE IF ShouldEnhance(settings) /\ ~ShouldTranslate(settings) THEN "enhance"
    ELSE "both"

\* A variant of should_pre_announce that takes the configured value only.
ShouldPreAnnounceConfigOnly == Effective(entry_data.pre_announce_enabled, TRUE)

\* should_pre_announce of _announce_to_room: the per-call value, else
\* config.get(CONF_PRE_ANNOUNCE_ENABLED, True); the configured value is
\* "none" when the key is absent.
ShouldPreAnnounce ==
    Effective(request.pre_announce_sound, Effective(entry_data.pre_announce_enabled, TRUE))

\* An entry of the log.
Entry(k, room, msg, reason, person, target, voice) ==
    [k |-> k, area |-> room.area_id, room_name |-> room.room_name, msg |-> msg,
     reason |-> reason, person |-> person, target |-> target, voice |-> voice]

NoCur ==
    [room |-> NoRoom, target_person |-> << >>, settings |-> GroupSettings("none"),
     personalized |-> Text(FALSE), final_message |-> Text(FALSE)]

\* The tts.speak call of _call_tts.
TtsCall(c) ==
    Entry("tts_call", c.room, c.final_message, "", c.target_person,
          IF Truthy(c.settings.tts_platform) THEN c.settings.tts_platform
          ELSE c.room.media_player,
          c.settings.tts_voice)

\* The media_player.play_media call of _play_pre_announce.
ChimeCall(c) ==
    Entry("chime_call", c.room, c.final_message, "", c.target_person,
          c.room.media_player, entry_data.pre_announce_url)

\* The conversation.process call of _enhance_message.
AICall(c) ==
    Entry("ai_call", c.room, c.personalized, PromptKind(c.settings), c.target_person,
          c.settings.conversation_entity, NoStr)

Mark(k, c) == Entry(k, c.room, c.final_message, "", c.target_person, NoStr, NoStr)

\* _announce_to_room from the pre-announce decision to its next await.
PreAnnounceOrTts(c, lg) ==
    LET chime == ShouldPreAnnounce /\ Truthy(entry_data.pre_announce_url) IN
    [pc |-> IF chime THEN "chime_wait" ELSE "tts_wait",
     log |-> Append(lg, IF chime THEN ChimeCall(c) ELSE TtsCall(c))]

\* A variant of the loop that returns after the first room.
AfterRoomReturns(i) == "done"

\* The loop of async_announce after room i: the next room, or the return.
AfterRoom(i) == IF i >= Len(target_rooms) THEN "done" ELSE "room"

(***************************************************************************)
(* Bounds and inputs                                                       *)
(***************************************************************************)
\* The longest comma-separated target_person list of a request.
MaxTargets == 2

\* const.DEFAULT_PRE_ANNOUNCE_DELAY
DEFAULT_PRE_ANNOUNCE_DELAY == 2

NameTokens ==
    { Str("mike", "", "Ti"), Padded(Str("mike", "", "Ti")), Str("anna", "", "lo"),
      Str("ghost", "", "Ti") }

RECURSIVE SeqsUpTo(_, _)
SeqsUpTo(S, n) ==
    IF n = 0 THEN { << >> }
    ELSE LET shorter == SeqsUpTo(S, n - 1)
         IN shorter \cup { Append(q, x) : q \in { r \in shorter : Len(r) = n - 1 }, x \in S }

TargetPersons == SeqsUpTo(NameTokens, MaxTargets)

TargetAreas ==
    { NoStr, Str("kitchen", "", "UP"), Str("office", "", "lo"), Str("attic", "", "lo") }

(***************************************************************************)
(* Actions: async_announce, from one await to the next                     *)
(***************************************************************************)
\* async_announce up to its loop: _resolve_targets and the empty-list errors.
AsyncAnnounce ==
    /\ pc = "called"
    /\ \E res \in { ResolveTargets } :
         IF res.raised # ""
         THEN /\ pc' = "raised"
              /\ err' = res.raised
              /\ target_rooms' = << >>
         ELSE IF res.rooms = << >>
         THEN /\ pc' = "raised"
              /\ err' = NoTargetError
              /\ target_rooms' = << >>
         ELSE /\ pc' = "room"
              /\ err' = ""
              /\ target_rooms' = res.rooms
    /\ idx' = 1
    /\ UNCHANGED <<env, side, request, cur, log>>

\* room_info of the room at idx, and room_target_person of async_announce:
\* room_info.get("target_person", target_person).
RoomInfo == target_rooms[idx].room

RoomTargetPerson ==
    IF target_rooms[idx].has_target_person THEN target_rooms[idx].target_person
    ELSE request.target_person

\* The locals of _announce_to_room for the room at idx.
RoomLocals ==
    CHOOSE c \in
        { [room |-> RoomInfo,
           target_person |-> RoomTargetPerson,
           settings |-> GetAnnouncementSettings(RoomTargetPerson, people_in_room,
                                                Len(people_in_room) > 1),
           personalized |-> p,
           final_message |-> p]
          : people_in_room \in { GetPeopleInRoom(RoomInfo.area_id) },
            p \in { PersonalizeMessage(request.message, RoomTargetPerson, q,
                                       Len(q) > 1)
                    : q \in { GetPeopleInRoom(RoomInfo.area_id) } } } : TRUE

\* The person gate of _announce_to_room blocks this target.
PersonGateBlocks(target_person) ==
    LET person_config == GetPersonConfig(target_person) IN
    /\ target_person # << >>
    /\ person_config # NoPerson
    /\ ~IsPersonEnabled(person_config.person_entity)

\* _announce_to_room returns at once: the room has no media player.
SkipRoom ==
    /\ pc = "room"
    /\ ~Truthy(RoomInfo.media_player)
    /\ log' = Append(log, Entry("skipped", RoomInfo, Text(FALSE), "", << >>, NoStr, NoStr))
    /\ idx' = idx + 1
    /\ pc' = AfterRoom(idx)
    /\ UNCHANGED <<env, side, request, err, target_rooms, cur>>

\* A variant of the room gate that is checked before the media player.
BlockRoomBeforeDeviceCheck ==
    /\ pc = "room"
    /\ ~IsRoomEnabled(RoomInfo.area_id)
    /\ log' = Append(log, Entry("blocked", RoomInfo, Text(FALSE), "room_disabled",
                                << >>, NoStr, NoStr))
    /\ idx' = idx + 1
    /\ pc' = AfterRoom(idx)
    /\ UNCHANGED <<env, side, request, err, target_rooms, cur>>

\* _announce_to_room fires a blocked event and returns: the room gate.
BlockRoom ==
    /\ pc = "room"
    /\ Truthy(RoomInfo.media_player)
    /\ ~IsRoomEnabled(RoomInfo.area_id)
    /\ log' = Append(log, Entry("blocked", RoomInfo, Text(FALSE), "room_disabled",
                                << >>, NoStr, NoStr))
    /\ idx' = idx + 1
    /\ pc' = AfterRoom(idx)
    /\ UNCHANGED <<env, side, request, err, target_rooms, cur>>

\* A variant of the person gate that is checked before the room gate.
BlockPersonBeforeRoomCheck ==
    /\ pc = "room"
    /\ Truthy(RoomInfo.media_player)
    /\ PersonGateBlocks(RoomTargetPerson)
    /\ log' = Append(log, Entry("blocked", RoomInfo, Text(FALSE), "person_disabled",
                                RoomTargetPerson, NoStr, NoStr))
    /\ idx' = idx + 1
    /\ pc' = AfterRoom(idx)
    /\ UNCHANGED <<env, side, request, err, target_rooms, cur>>

\* _announce_to_room fires a blocked event and returns: the person gate.
BlockPerson ==
    /\ pc = "room"
    /\ Truthy(RoomInfo.media_player)
    /\ IsRoomEnabled(RoomInfo.area_id)
    /\ PersonGateBlocks(RoomTargetPerson)
    /\ log' = Append(log, Entry("blocked", RoomInfo, Text(FALSE), "person_disabled",
                                RoomTargetPerson, NoStr, NoStr))
    /\ idx' = idx + 1
    /\ pc' = AfterRoom(idx)
    /\ UNCHANGED <<env, side, request, err, target_rooms, cur>>

\* _announce_to_room passes the gates and runs to its first capability call:
\* conversation.process, else media_player.play_media, else tts.speak.
StartRoom ==
    /\ pc = "room"
    /\ Truthy(RoomInfo.media_player)
    /\ IsRoomEnabled(RoomInfo.area_id)
    /\ ~PersonGateBlocks(RoomTargetPerson)
    /\ \E c \in { RoomLocals } :
         \E nxt \in { PreAnnounceOrTts(c, log) } :
            /\ cur' = c
            /\ pc' = IF CallsAI(c.settings) THEN "ai_wait" ELSE nxt.pc
            /\ log' = IF CallsAI(c.settings) THEN Append(log, AICall(c)) ELSE nxt.log
    /\ UNCHANGED <<env, side, request, err, target_rooms, idx>>

\* What conversation.process can do: return text, return no response, return
\* a response without speech text, or raise.
AIOutcomes == {"text", "no_response", "no_speech", "raise"}

\* The text _enhance_message returns for an outcome of the call.
EnhancedText(c, outcome) ==
    IF outcome = "text"
    THEN [c.personalized EXCEPT !.ai = PromptKind(c.settings),
                                !.lang = IF PromptKind(c.settings) = "enhance" THEN ""
                                         ELSE c.settings.language]
    ELSE c.personalized

\* How the log names the outcome of conversation.process.
AIMark(outcome) ==
    IF outcome = "raise" THEN "ai_fail"
    ELSE IF outcome = "text" THEN "ai_text"
    ELSE "ai_no_text"

\* A variant of _enhance_message without its try/except: an error of
\* conversation.process reaches the caller of async_announce.
AIReturnPropagating ==
    /\ pc = "ai_wait"
    /\ \E outcome \in AIOutcomes :
         \E c \in { [cur EXCEPT !.final_message = EnhancedText(cur, outcome)] } :
            \E nxt \in { PreAnnounceOrTts(c, Append(log, Mark(AIMark(outcome), c))) } :
               /\ cur' = c
               /\ pc' = IF outcome = "raise" THEN "raised" ELSE nxt.pc
               /\ err' = IF outcome = "raise" THEN "ai_failed" ELSE err
               /\ log' = IF outcome = "raise"
                         THEN Append(log, Mark(AIMark(outcome), c)) ELSE nxt.log
    /\ UNCHANGED <<env, side, request, target_rooms, idx>>

\* conversation.process returns or raises; _enhance_message returns.
AIReturn ==
    /\ pc = "ai_wait"
    /\ \E outcome \in AIOutcomes :
         \E c \in { [cur EXCEPT !.final_message = EnhancedText(cur, outcome)] } :
            \E nxt \in { PreAnnounceOrTts(c, Append(log, Mark(AIMark(outcome), c))) } :
               /\ cur' = c
               /\ pc' = nxt.pc
               /\ log' = nxt.log
    /\ UNCHANGED <<env, side, request, err, target_rooms, idx>>

\* A variant of _play_pre_announce that does not wait after the chime.
ChimeReturnOkNoDelay ==
    /\ pc = "chime_wait"
    /\ pc' = "tts_wait"
    /\ log' = Append(Append(log, Mark("chime_ok", cur)), TtsCall(cur))
    /\ UNCHANGED <<env, side, request, err, target_rooms, idx, cur>>

\* media_player.play_media returns: the delay when positive, else tts.speak.
ChimeReturnOk ==
    /\ pc = "chime_wait"
    /\ IF entry_data.pre_announce_delay > 0
       THEN /\ pc' = "delay"
            /\ log' = Append(log, Mark("chime_ok", cur))
       ELSE /\ pc' = "tts_wait"
            /\ log' = Append(Append(log, Mark("chime_ok", cur)), TtsCall(cur))
    /\ UNCHANGED <<env, side, request, err, target_rooms, idx, cur>>

\* media_player.play_media raises: caught by _play_pre_announce.
ChimeReturnFail ==
    /\ pc = "chime_wait"
    /\ pc' = "tts_wait"
    /\ log' = Append(Append(log, Mark("chime_fail", cur)), TtsCall(cur))
    /\ UNCHANGED <<env, side, request, err, target_rooms, idx, cur>>

\* asyncio.sleep(delay) returns.
\* A variant of the delay whose sleep never ends.
DelayNeverEnds ==
    /\ pc = "delay"
    /\ UNCHANGED vars

\* asyncio.sleep returns: tts.speak is called.
DelayDone ==
    /\ pc = "delay"
    /\ pc' = "tts_wait"
    /\ log' = Append(Append(log, Mark("delay_done", cur)), TtsCall(cur))
    /\ UNCHANGED <<env, side, request, err, target_rooms, idx, cur>>

\* The rest of _announce_to_room once tts.speak has returned: the
\* logbook.log call when configured (blocking=False: the host schedules it
\* and its outcome never comes back), then the sent event.
SentTail(lg) ==
    Append(IF entry_data.log_to_activity THEN Append(lg, Mark("log_call", cur)) ELSE lg,
           Mark("sent", cur))

\* A variant of _call_tts that logs the error of tts.speak and returns.
TtsReturnFailSwallowed ==
    /\ pc = "tts_wait"
    /\ log' = SentTail(Append(log, Mark("tts_fail", cur)))
    /\ pc' = AfterRoom(idx)
    /\ idx' = idx + 1
    /\ UNCHANGED <<env, side, request, err, target_rooms, cur>>

\* tts.speak raises: _call_tts logs and re-raises, nothing catches it.
TtsReturnFail ==
    /\ pc = "tts_wait"
    /\ pc' = "raised"
    /\ err' = "tts_failed"
    /\ log' = Append(log, Mark("tts_fail", cur))
    /\ UNCHANGED <<env, side, request, target_rooms, idx, cur>>

\* tts.speak returns: the sent event is fired and the loop goes on.
TtsReturnOk ==
    /\ pc = "tts_wait"
    /\ log' = SentTail(Append(log, Mark("tts_ok", cur)))
    /\ pc' = AfterRoom(idx)
    /\ idx' = idx + 1
    /\ UNCHANGED <<env, side, request, err, target_rooms, cur>>

Next ==
    \/ AsyncAnnounce
    \/ SkipRoom
    \/ BlockRoom
    \/ BlockPerson
    \/ StartRoom
    \/ AIReturn
    \/ ChimeReturnOk
    \/ ChimeReturnFail
    \/ DelayDone
    \/ TtsReturnFail
    \/ TtsReturnOk

(***************************************************************************)
(* Initial states: the host's state and the request about to be served     *)
(***************************************************************************)
Request(target_person, target_area) ==
    [message |-> Text(FALSE), target_person |-> target_person, target_area |-> target_area,
     enhance_with_ai |-> "none", translate_announcement |-> "none",
     pre_announce_sound |-> "none", room_tracking |-> "none",
     presence_verification |-> "none"]

\* A request with per-call values for enhance_with_ai, translate_announcement
\* and pre_announce_sound ("none" when not given).
RequestWith(message, target_person, target_area, enhance, translate, sound) ==
    [message |-> message, target_person |-> target_person, target_area |-> target_area,
     enhance_with_ai |-> enhance, translate_announcement |-> translate,
     pre_announce_sound |-> sound, room_tracking |-> "none",
     presence_verification |-> "none"]

\* What a bool | None argument and an optional boolean key can hold.
Tri == {"none", "true", "false"}

TrackerEntity(state) == [exists |-> TRUE, state |-> state, area |-> NoStr, room |-> NoStr]

EntryData(tracking, presence, url, delay, activity) ==
    [room_tracking |-> tracking, presence_verification |-> presence,
     pre_announce_enabled |-> "none", pre_announce_url |-> url,
     pre_announce_delay |-> delay, log_to_activity |-> activity]

ChimeUrl == Str("chime", "", "lo")

\* The registry right after async_setup_entry, before any switch was added.
FreshRegistry == [people |-> [e \in {} |-> "on"], rooms |-> [a \in {} |-> "on"]]

AllOn == [people |-> [e \in PersonIds |-> "on"], rooms |-> [a \in RoomIds |-> "on"]]

\* The config entries of the integration: the one whose Announcer and
\* switches the model follows, and another one.
E1 == "entry_1"

E2 == "entry_2"

EntryIds == {E1, E2}

\* The switches as the registry shows them: a switch is created on, and
\* every turn writes both the switch and the registry.
SwitchesOf(registry) ==
    [people |-> [e \in PersonIds |->
                    IF e \in DOMAIN registry.people THEN registry.people[e] # "off" ELSE TRUE],
     rooms |-> [a \in RoomIds |->
                    IF a \in DOMAIN registry.rooms THEN registry.rooms[a] # "off" ELSE TRUE]]

NoSwitchCall ==
    [kind |-> "none", id |-> NoStr, on |-> TRUE, raised |-> FALSE, at_pc |-> "", at_idx |-> 0]

\* No switch has been turned since it was created.
SwitchesAtRest ==
    /\ is_on = SwitchesOf(enabled)
    /\ switch_call = NoSwitchCall

\* No service call has been recorded: the outcome of the last call, the entry
\* its handler looked up, and the entries that were loaded at the call.
NoDispatch == [called |-> FALSE, outcome |-> "none", entry |-> "", loaded |-> {}]

\* The one entry is set up, the service is registered for it, and its
\* switches are added unless the registry is still empty.
EntriesAtRest ==
    /\ hass_data = {E1}
    /\ service = E1
    /\ adding = IF enabled = FreshRegistry THEN {E1} ELSE {}
    /\ dispatch = NoDispatch

\* No request runs in the two-request view.
NoConc == [self_context |-> "", self_config |-> 0, entry_config |-> 0, requests |-> << >>]

\* No call of _get_person_config has been recorded.
NoneLookedUp == [called |-> FALSE, people |-> << >>, person_name |-> NoStr, found |-> 0]

\* No call of async_get_person_room has been recorded.
NoLookup == [called |-> FALSE, person_entity |-> NoStr, signal_read |-> FALSE,
             area_id |-> NoStr]

\* Requests of every shape against every presence and tracking situation;
\* every switch on, no chime, no activity log.
InitResolve ==
    /\ personState \in [PersonIds -> {"home", "not_home"}]
    /\ \E m \in {Str("kitchen", "", "Ti"), Str("unknown", "", "lo")},
          a \in {Str("office", "", "Ti"), Str("garden", "", "Ti")} :
         tracker = [e \in PersonIds |->
                       TrackerEntity(IF e = PersonId("mike", "") THEN m ELSE a)]
    /\ \E k \in {"on", "off"} :
         sensorState = [x \in Sensors |-> IF x = "s_kitchen" THEN k ELSE "off"]
    /\ enabled = AllOn
    /\ \E t \in BOOLEAN, v \in BOOLEAN :
         entry_data = EntryData(t, v, NoStr, DEFAULT_PRE_ANNOUNCE_DELAY, FALSE)
    /\ \E tp \in TargetPersons, ta \in TargetAreas :
         /\ Truthy(ta) => Len(tp) <= 1
         /\ request = Request(tp, ta)

\* Every setting of the switches, the chime and the activity log against
\* the requests that reach one room, two rooms, a merged room, a room
\* without media player and the occupied-rooms fallback.
InitDispatch ==
    /\ personState = [e \in PersonIds |-> "home"]
    /\ \E m \in {Str("kitchen", "", "Ti"), Str("unknown", "", "lo")},
          a \in {Str("kitchen", "", "lo"), Str("study", "", "Ti")} :
         tracker = [e \in PersonIds |->
                       TrackerEntity(IF e = PersonId("mike", "") THEN m ELSE a)]
    /\ sensorState = [x \in Sensors |-> "off"]
    /\ \/ \E pe \in [PersonIds -> {"on", "off"}], k \in {"on", "off"}, o \in {"on", "off"} :
            enabled = [people |-> pe,
                       rooms |-> [a \in RoomIds |->
                                    IF a.b = "kitchen" THEN k
                                    ELSE IF a.b = "office" THEN o ELSE "off"]]
       \/ enabled = FreshRegistry
    /\ \E u \in {NoStr, ChimeUrl}, d \in {0, DEFAULT_PRE_ANNOUNCE_DELAY}, l \in BOOLEAN :
         /\ u = NoStr => d = DEFAULT_PRE_ANNOUNCE_DELAY
         /\ entry_data = EntryData(TRUE, FALSE, u, d, l)
    /\ \E tp \in { q \in TargetPersons : \A k \in 1..Len(q) : q[k].b # "ghost" },
          ta \in {NoStr, Str("office", "", "lo")} :
         /\ Truthy(ta) => Len(tp) <= 1
         /\ request = Request(tp, ta)

\* Everybody home and every switch on; the rooms hold both people, one of
\* them or nobody.  Either the per-call and configured AI flags and the name
\* placeholder vary, or the per-call and configured pre-announce values and
\* the chime URL.
InitCompose ==
    /\ personState = [e \in PersonIds |-> "home"]
    /\ \E m \in {Str("kitchen", "", "Ti"), Str("unknown", "", "lo")},
          a \in {Str("kitchen", "", "lo"), Str("study", "", "Ti")} :
         tracker = [e \in PersonIds |->
                       TrackerEntity(IF e = PersonId("mike", "") THEN m ELSE a)]
    /\ sensorState = [x \in Sensors |-> "off"]
    /\ enabled = AllOn
    /\ \/ /\ entry_data = EntryData(TRUE, FALSE, NoStr, DEFAULT_PRE_ANNOUNCE_DELAY, FALSE)
          /\ \E ph \in BOOLEAN, en \in Tri, tr \in Tri,
                tp \in { << >>, <<Str("mike", "", "Ti")>>, <<Str("anna", "", "lo")>>,
                         <<Str("ghost", "", "Ti")>> },
                ta \in { NoStr, Str("kitchen", "", "UP") } :
               /\ (tp # << >> /\ tp[1].b = "ghost") => Truthy(ta)
               /\ (tp # << >> /\ tp[1].b = "anna") => ~Truthy(ta)
               /\ request = RequestWith(Text(ph), tp, ta, en, tr, "none")
       \/ /\ \E u \in {NoStr, ChimeUrl}, pe \in Tri :
               entry_data = [EntryData(TRUE, FALSE, u, DEFAULT_PRE_ANNOUNCE_DELAY, FALSE)
                                EXCEPT !.pre_announce_enabled = pe]
          /\ \E tp \in { << >>, <<Str("mike", "", "Ti")>> }, sound \in Tri :
               request = RequestWith(Text(FALSE), tp, NoStr, "none", "none", sound)

\* async_announce called with per-call room_tracking and
\* presence_verification values against every configured pair of values;
\* both people home, Mike tracked to the kitchen or to no room, Anna to the
\* study, which has no sensor, or to the garden, which is no configured
\* room; the sensors of the kitchen and of the office on or off.
InitFlags ==
    /\ personState = [e \in PersonIds |-> "home"]
    /\ \E m \in {Str("kitchen", "", "Ti"), Str("unknown", "", "lo")},
          a \in {Str("study", "", "Ti"), Str("garden", "", "Ti")} :
         tracker = [e \in PersonIds |->
                       TrackerEntity(IF e = PersonId("mike", "") THEN m ELSE a)]
    /\ sensorState \in [Sensors -> {"on", "off"}]
    /\ enabled = AllOn
    /\ \E t \in BOOLEAN, v \in BOOLEAN :
         entry_data = EntryData(t, v, NoStr, DEFAULT_PRE_ANNOUNCE_DELAY, FALSE)
    /\ \E tp \in { << >>, <<Str("mike", "", "Ti")>>,
                    <<Str("mike", "", "Ti"), Str("anna", "", "lo")>> },
          room_tracking \in Tri, presence_verification \in Tri :
         request = [Request(tp, NoStr) EXCEPT !.room_tracking = room_tracking,
                                             !.presence_verification = presence_verification]

\* async_announce has just been called.
Called ==
    /\ person_room = NoLookup
    /\ lookup = NoneLookedUp
    /\ SwitchesAtRest
    /\ EntriesAtRest
    /\ conc = NoConc
    /\ pc = "called"
    /\ err = ""
    /\ target_rooms = << >>
    /\ idx = 1
    /\ cur = NoCur
    /\ log = << >>

Init ==
    /\ InitResolve \/ InitDispatch \/ InitCompose \/ InitFlags
    /\ Called

Spec == Init /\ [][Next]_vars

\* The same program when the event loop keeps running it and every
\* capability call it awaits (conversation.process, play_media, the sleep,
\* tts.speak) returns or raises in the end; the requests are those of
\* InitDispatch, which reach every step of the loop, without the activity
\* log, whose call is not awaited.
LiveInit == InitDispatch /\ ~entry_data.log_to_activity /\ Called

LiveSpec == LiveInit /\ [][Next]_vars /\ WF_vars(Next)

\* The house and the announcer at rest, for the specifications that do not
\* run async_announce.
AtRest ==
    /\ personState = [e \in PersonIds |-> "home"]
    /\ tracker = [e \in PersonIds |-> TrackerEntity(Str("study", "", "Ti"))]
    /\ sensorState = [x \in Sensors |-> "off"]
    /\ entry_data = EntryData(TRUE, FALSE, NoStr, DEFAULT_PRE_ANNOUNCE_DELAY, FALSE)
    /\ request = Request(<< >>, NoStr)
    /\ err = ""
    /\ target_rooms = << >>
    /\ idx = 1
    /\ cur = NoCur
    /\ log = << >>

(***************************************************************************)
(* The switches (switch.py)                                                *)
(***************************************************************************)
\* enabled_states.setdefault(kind, {})[key] = enabled
SetKey(states, key, value) ==
    [k \in DOMAIN states \cup {key} |-> IF k = key THEN value ELSE states[k]]

\* A variant of _update_enabled_state that leaves the registry alone.
UpdateEnabledStateNowhere(kind, key, on) == enabled

\* PersonSwitch._update_enabled_state and RoomSwitch._update_enabled_state:
\* the registry afterwards; nothing is written when the entry has no data.
UpdateEnabledState(kind, key, on) ==
    IF E1 \notin hass_data THEN enabled
    ELSE IF kind = "person"
    THEN [enabled EXCEPT !.people = SetKey(@, key, IF on THEN "on" ELSE "off")]
    ELSE [enabled EXCEPT !.rooms = SetKey(@, key, IF on THEN "on" ELSE "off")]

\* What a turn call leaves behind, with the place of the running request.
SwitchCall(kind, key, on, raised) ==
    [kind |-> kind, id |-> key, on |-> on, raised |-> raised, at_pc |-> pc, at_idx |-> idx]

\* PersonSwitch.async_turn_on and async_turn_off: the switch, the registry,
\* the state write, and then the debug line, which reads self._person_name,
\* an attribute no PersonSwitch has: the call ends with AttributeError.
PersonSwitchTurn(person_entity, on) ==
    /\ is_on' = [is_on EXCEPT !.people[person_entity] = on]
    /\ enabled' = UpdateEnabledState("person", person_entity, on)
    /\ switch_call' = SwitchCall("person", person_entity, on, TRUE)

\* RoomSwitch.async_turn_on and async_turn_off
RoomSwitchTurn(area_id, on) ==
    /\ is_on' = [is_on EXCEPT !.rooms[area_id] = on]
    /\ enabled' = UpdateEnabledState("room", area_id, on)
    /\ switch_call' = SwitchCall("room", area_id, on, FALSE)

\* What a turn call leaves as it was.
TurnFrame ==
    UNCHANGED <<personState, tracker, sensorState, entry_data, person_room, lookup,
                entryVars, conc, request, pc, err, target_rooms, idx, cur, log>>

PersonTurnOn ==
    /\ E1 \in hass_data
    /\ E1 \notin adding
    /\ \E e \in PersonIds : PersonSwitchTurn(e, TRUE)
    /\ TurnFrame

PersonTurnOff ==
    /\ E1 \in hass_data
    /\ E1 \notin adding
    /\ \E e \in PersonIds : PersonSwitchTurn(e, FALSE)
    /\ TurnFrame

RoomTurnOn ==
    /\ E1 \in hass_data
    /\ E1 \notin adding
    /\ \E a \in RoomIds : RoomSwitchTurn(a, TRUE)
    /\ TurnFrame

RoomTurnOff ==
    /\ E1 \in hass_data
    /\ E1 \notin adding
    /\ \E a \in RoomIds : RoomSwitchTurn(a, FALSE)
    /\ TurnFrame

\* The switches right after they were added: everything on.
SwitchInit ==
    /\ AtRest
    /\ enabled = AllOn
    /\ person_room = NoLookup
    /\ lookup = NoneLookedUp
    /\ SwitchesAtRest
    /\ EntriesAtRest
    /\ conc = NoConc
    /\ pc = "idle"

SwitchNext == PersonTurnOn \/ PersonTurnOff \/ RoomTurnOn \/ RoomTurnOff

SwitchSpec == SwitchInit /\ [][SwitchNext]_vars

\* Requests served while the switches are turned: everything starts on, a
\* chime is configured, Mike is in the kitchen and Anna in the study; the
\* request goes to the occupied rooms, to the office area (one of its rooms
\* has no media player), to Mike, or to Mike and Anna.
GateInit ==
    /\ personState = [e \in PersonIds |-> "home"]
    /\ tracker = [e \in PersonIds |->
                    TrackerEntity(IF e = PersonId("mike", "") THEN Str("kitchen", "", "Ti")
                                  ELSE Str("study", "", "Ti"))]
    /\ sensorState = [x \in Sensors |-> "off"]
    /\ enabled = AllOn
    /\ entry_data = EntryData(TRUE, FALSE, ChimeUrl, DEFAULT_PRE_ANNOUNCE_DELAY, FALSE)
    /\ \E r \in { <<(<< >>), NoStr>>, <<(<< >>), Str("office", "", "lo")>>,
                  <<(<<Str("mike", "", "Ti")>>), NoStr>>,
                  <<(<<Str("mike", "", "Ti"), Str("anna", "", "lo")>>), NoStr>> } :
         request = Request(r[1], r[2])
    /\ Called

\* A step of a request or a turn of a switch: the switch services run on
\* the same event loop and can be served at every await of a request.
GateNext == Next \/ SwitchNext

GateSpec == GateInit /\ [][GateNext]_vars

(***************************************************************************)
(* The config entries (__init__.py): setup, unload, reload, and the        *)
(* announce service.  hass_data holds the ids of the entries whose data is *)
(* in hass.data[DOMAIN]; service is the id of the entry the registered     *)
(* handler was created for ("" when no service is registered); adding      *)
(* holds the entries whose switches are created and not yet added.         *)
(***************************************************************************)
\* A variant of the setup that keeps the "enabled" record it finds.
SetupRegistryKept == enabled

\* The "enabled" record async_setup_entry stores: {"people": {}, "rooms": {}}
SetupRegistry == FreshRegistry

\* A variant of the registration that always installs a new handler.
RegisterAlways(registered, e) == e

\* hass.services.has_service / async_register in async_setup_entry: the
\* handler is created for the entry being set up, and only when no service
\* is registered yet; it keeps that entry for as long as it is registered.
Register(registered, e) == IF registered = "" THEN e ELSE registered

\* A variant of the unload that leaves the service registered.
RemoveNever(registered, data) == registered

\* async_unload_entry: the service is removed when no entry data is left.
RemoveIfEmpty(registered, data) == IF data = {} THEN "" ELSE registered

\* A freshly created switch: _attr_is_on = True
CreatedSwitches == [people |-> [e \in PersonIds |-> TRUE], rooms |-> [a \in RoomIds |-> TRUE]]

\* What the entry handlers leave as it was.
EntryFrame ==
    UNCHANGED <<personState, tracker, sensorState, entry_data, person_room, lookup,
                switch_call, conc, request, pc, err, target_rooms, idx, cur, log>>

\* async_setup_entry up to the await of the platform setup: the entry's data
\* with an empty "enabled" record, the service if there is none, and the
\* switches created by the switch platform.
SetupEntry ==
    /\ \E e \in EntryIds :
         /\ e \notin hass_data
         /\ hass_data' = hass_data \cup {e}
         /\ service' = Register(service, e)
         /\ adding' = adding \cup {e}
         /\ enabled' = IF e = E1 THEN SetupRegistry ELSE enabled
         /\ is_on' = IF e = E1 THEN CreatedSwitches ELSE is_on
    /\ UNCHANGED dispatch
    /\ EntryFrame

\* The switches of an entry are added: async_added_to_hass of each writes
\* True under its key, and async_setup_entry returns.
SwitchesAdded ==
    /\ \E e \in adding :
         /\ adding' = adding \ {e}
         /\ enabled' = IF e = E1 THEN AllOn ELSE enabled
    /\ UNCHANGED <<hass_data, service, dispatch, is_on>>
    /\ EntryFrame

\* async_unload_entry with unload_ok: the platforms are unloaded, the
\* entry's data is popped (its gates read their defaults from now on) and
\* the service is removed when no data is left.
UnloadEntry ==
    /\ \E e \in hass_data \ adding :
         /\ hass_data' = hass_data \ {e}
         /\ service' = RemoveIfEmpty(service, hass_data \ {e})
         /\ enabled' = IF e = E1 THEN FreshRegistry ELSE enabled
    /\ UNCHANGED <<adding, dispatch, is_on>>
    /\ EntryFrame

\* async_reload_entry: async_unload_entry, then async_setup_entry.
ReloadEntry ==
    /\ \E e \in hass_data \ adding :
         /\ hass_data' = hass_data
         /\ service' = Register(RemoveIfEmpty(service, hass_data \ {e}), e)
         /\ adding' = adding \cup {e}
         /\ enabled' = IF e = E1 THEN SetupRegistry ELSE enabled
         /\ is_on' = IF e = E1 THEN CreatedSwitches ELSE is_on
    /\ UNCHANGED dispatch
    /\ EntryFrame

\* The registered handle_announce is called: _async_handle_announce with the
\* entry the handler was created for.  It looks that entry up in
\* hass.data[DOMAIN]; without an announcer it logs "Announcer not
\* initialized" and returns, else it hands the call to async_announce.
HandleAnnounce ==
    /\ service # ""
    /\ dispatch' = [called |-> TRUE,
                    outcome |-> IF service \in hass_data THEN "dispatched"
                                ELSE "not_initialized",
                    entry |-> service,
                    loaded |-> hass_data]
    /\ UNCHANGED <<hass_data, service, adding, enabled, is_on>>
    /\ EntryFrame

\* The host has started and no entry is set up.
EntryInit ==
    /\ AtRest
    /\ enabled = FreshRegistry
    /\ is_on = CreatedSwitches
    /\ switch_call = NoSwitchCall
    /\ person_room = NoLookup
    /\ lookup = NoneLookedUp
    /\ hass_data = {}
    /\ service = ""
    /\ adding = {}
    /\ dispatch = NoDispatch
    /\ conc = NoConc
    /\ pc = "idle"

EntryNext ==
    \/ SetupEntry
    \/ SwitchesAdded
    \/ UnloadEntry
    \/ ReloadEntry
    \/ HandleAnnounce
    \/ PersonTurnOn
    \/ PersonTurnOff
    \/ RoomTurnOn
    \/ RoomTurnOff

EntrySpec == EntryInit /\ [][EntryNext]_vars

(***************************************************************************)
(* Two requests on one Announcer.  The Announcer keeps the context and the *)
(* configuration of a request in self.context and self.config, which       *)
(* async_announce sets when it starts; conc holds these two attributes,    *)
(* the data of the config entry (the options flow replaces entry.data),    *)
(* and for each request its place, the context it was called with, the     *)
(* configuration it loaded, and the capability calls issued for it, each   *)
(* with the context it carried and the configuration it was built from.    *)
(* Each request has one room that passes its gates, is enhanced by the AI  *)
(* agent unless the AI flags are off, and has a chime configured.          *)
(***************************************************************************)
\* The two requests; the contexts a caller passes (the service handler
\* passes none); the configurations the options flow can save.
Requesters == {1, 2}

Contexts == {"none", "ctx_a", "ctx_b"}

ConfigVersions == {0, 1}

\* A request not yet made; slept tells that its asyncio.sleep was awaited.
IdleRequest ==
    [pc |-> "idle", context |-> "none", config |-> 0, calls |-> << >>, slept |-> FALSE]

\* A capability call issued now: context=self.context, and the values read
\* from self.config for it.
CallNow(kind, self_context, self_config) ==
    [kind |-> kind, context |-> self_context, config |-> self_config]

\* Request r issues a call and waits for it: the call carries self.context
\* as it is at that moment.  The prompts of conversation.process and the
\* URL and delay of play_media are read from self.config at that moment
\* too; the engine and voice of tts.speak come from the settings the
\* request computed for its room before its first await.
Issue(c, r, kind, nextpc) ==
    [c EXCEPT !.requests[r].pc = nextpc,
              !.requests[r].calls =
                  Append(@, CallNow(kind, c.self_context,
                                    IF kind = "tts.speak" THEN c.requests[r].config
                                    ELSE c.self_config))]

ConcFrame ==
    UNCHANGED <<env, person_room, lookup, switchVars, entryVars, request, pc, err,
                target_rooms, idx, cur, log>>

\* async_announce is called: it stores its context and the entry's data in
\* the Announcer, resolves its room, and runs to its first capability
\* call, conversation.process or media_player.play_media.
AnnounceStarts ==
    /\ \E r \in Requesters, context \in Contexts, ai \in BOOLEAN :
         /\ conc.requests[r].pc = "idle"
         /\ \E started \in { [conc EXCEPT !.self_context = context,
                                          !.self_config = conc.entry_config,
                                          !.requests[r].context = context,
                                          !.requests[r].config = conc.entry_config] } :
              conc' = IF ai THEN Issue(started, r, "conversation.process", "ai_wait")
                      ELSE Issue(started, r, "play_media", "chime_wait")
    /\ ConcFrame

\* conversation.process returns or raises: _play_pre_announce reads the URL
\* and the delay from self.config and calls media_player.play_media.
ConversationReturns ==
    /\ \E r \in Requesters :
         /\ conc.requests[r].pc = "ai_wait"
         /\ conc' = Issue(conc, r, "play_media", "chime_wait")
    /\ ConcFrame

\* media_player.play_media returns: the sleep begins; or it raises: tts.speak.
PlayMediaReturns ==
    /\ \E r \in Requesters :
         /\ conc.requests[r].pc = "chime_wait"
         /\ \/ conc' = [conc EXCEPT !.requests[r].pc = "delay"]
            \/ conc' = Issue(conc, r, "tts.speak", "tts_wait")
    /\ ConcFrame

\* asyncio.sleep ends: _call_tts calls tts.speak with context=self.context.
SleepEnds ==
    /\ \E r \in Requesters :
         /\ conc.requests[r].pc = "delay"
         /\ conc' = Issue([conc EXCEPT !.requests[r].slept = TRUE], r,
                          "tts.speak", "tts_wait")
    /\ ConcFrame

\* tts.speak returns or raises: the request is over.
SpeakReturns ==
    /\ \E r \in Requesters :
         /\ conc.requests[r].pc = "tts_wait"
         /\ conc' = [conc EXCEPT !.requests[r].pc = "done"]
    /\ ConcFrame

\* The options flow saves another configuration: async_update_entry
\* replaces entry.data; the Announcer keeps the object it loaded.
OptionsSaved ==
    /\ \E v \in ConfigVersions \ {conc.entry_config} :
         conc' = [conc EXCEPT !.entry_config = v]
    /\ ConcFrame

ConcInit ==
    /\ AtRest
    /\ enabled = AllOn
    /\ person_room = NoLookup
    /\ lookup = NoneLookedUp
    /\ SwitchesAtRest
    /\ EntriesAtRest
    /\ conc = [self_context |-> "none", self_config |-> 0, entry_config |-> 0,
               requests |-> [r \in Requesters |-> IdleRequest]]
    /\ pc = "idle"

ConcNext ==
    \/ AnnounceStarts
    \/ ConversationReturns
    \/ PlayMediaReturns
    \/ SleepEnds
    \/ SpeakReturns
    \/ OptionsSaved

ConcSpec == ConcInit /\ [][ConcNext]_vars

(***************************************************************************)
(* Announcer._get_person_config on its own: two configured people in       *)
(* either order, their friendly names, and the names asked for.            *)
(***************************************************************************)
\* person.mike, whose friendly name is Mike, Michael or missing, and
\* person.mike_jr, whose friendly name is Mike Jr, Mike or missing.
LookupPeople ==
    { <<a, b>> : a \in { [person_entity |-> PersonId("mike", ""), friendly_name |-> f]
                          : f \in { Str("mike", "", "Ti"), Str("michael", "", "Ti"), NoStr } },
                 b \in { [person_entity |-> PersonId("mikejr", "_"), friendly_name |-> f]
                          : f \in { Str("mikejr", " ", "Ti"), Str("mike", "", "Ti"), NoStr } } }
      \cup
    { <<b, a>> : a \in { [person_entity |-> PersonId("mike", ""), friendly_name |-> f]
                          : f \in { Str("mike", "", "Ti"), Str("michael", "", "Ti"), NoStr } },
                 b \in { [person_entity |-> PersonId("mikejr", "_"), friendly_name |-> f]
                          : f \in { Str("mikejr", " ", "Ti"), Str("mike", "", "Ti"), NoStr } } }

\* Mike, mike, MIKE, MIKE_JR, mike jr, Michael, Ghost, person.mike
LookupNames ==
    { Str("mike", "", "Ti"), Str("mike", "", "lo"), Str("mike", "", "UP"),
      Str("mikejr", "_", "UP"), Str("mikejr", " ", "lo"), Str("michael", "", "lo"),
      Str("ghost", "", "Ti"), PersonId("mike", "") }

LookupInit ==
    /\ AtRest
    /\ enabled = AllOn
    /\ person_room = NoLookup
    /\ SwitchesAtRest
    /\ EntriesAtRest
    /\ conc = NoConc
    /\ pc = "lookup"
    /\ \E people \in LookupPeople, person_name \in LookupNames :
         lookup = [called |-> FALSE, people |-> people, person_name |-> person_name,
                   found |-> 0]

\* One call of _get_person_config and its return.
GetPersonConfigCall ==
    /\ pc = "lookup"
    /\ ~lookup.called
    /\ lookup' = [lookup EXCEPT !.called = TRUE,
                                !.found = GetPersonConfigIn(lookup.people, lookup.person_name)]
    /\ UNCHANGED <<env, person_room, switchVars, entryVars, conc, request, pc, err,
                   target_rooms, idx, cur, log>>

LookupNext == GetPersonConfigCall

LookupSpec == LookupInit /\ [][LookupNext]_vars

(***************************************************************************)
(* RoomTracker.async_get_person_room on its own: every state of a person,  *)
(* of the person's tracking entity and of the occupancy sensors, with      *)
(* presence verification configured on and off.                            *)
(***************************************************************************)
\* The states a person entity can have; "missing" is an entity without state.
PersonStates == {"home", "not_home", "missing"}

\* States and attributes of a tracking entity: names of configured rooms
\* and of other areas in several cases, the reserved values, a name of no
\* area, and no attribute.
TrackerStateValues ==
    { Str("kitchen", "", "Ti"), Str("kitchen", "", "UP"), Str("office", "", "lo"),
      Str("garden", "", "Ti"), Str("home", "", "lo"), Str("nothome", "_", "lo"),
      Str("unknown", "", "Ti"), Str("unavailable", "", "lo"), Str("none", "", "UP"),
      Str("attic", "", "lo") }

TrackerAreaValues ==
    { NoStr, Str("study", "", "UP"), Str("home", "", "Ti"), Str("attic", "", "lo") }

TrackerRoomValues == { NoStr, Str("office", "", "Ti"), Str("attic", "", "lo") }

\* A person the configuration does not list.
Stranger == PersonId("stranger", "")

TrackerInit ==
    /\ \E m \in PersonStates :
         personState = [e \in PersonIds |-> IF e = PersonId("mike", "") THEN m ELSE "home"]
    /\ \E x \in BOOLEAN, st \in TrackerStateValues, a \in TrackerAreaValues,
          r \in TrackerRoomValues :
         tracker = [e \in PersonIds |->
                       IF e = PersonId("mike", "")
                       THEN [exists |-> x, state |-> st, area |-> a, room |-> r]
                       ELSE TrackerEntity(Str("study", "", "Ti"))]
    /\ sensorState \in [Sensors -> {"on", "off"}]
    /\ enabled = AllOn
    /\ \E v \in BOOLEAN :
         entry_data = EntryData(TRUE, v, NoStr, DEFAULT_PRE_ANNOUNCE_DELAY, FALSE)
    /\ request = Request(<< >>, NoStr)
    /\ person_room = NoLookup
    /\ lookup = NoneLookedUp
    /\ SwitchesAtRest
    /\ EntriesAtRest
    /\ conc = NoConc
    /\ pc = "tracker"
    /\ err = ""
    /\ target_rooms = << >>
    /\ idx = 1
    /\ cur = NoCur
    /\ log = << >>

\* One call of async_get_person_room and its return.
AsyncGetPersonRoom ==
    /\ pc = "tracker"
    /\ \E person_entity \in PersonIds \cup {Stranger} :
         person_room' = [called |-> TRUE, person_entity |-> person_entity,
                         signal_read |-> ReadsTrackingEntity(person_entity),
                         area_id |-> GetPersonRoom(person_entity)]
    /\ UNCHANGED <<env, lookup, switchVars, entryVars, conc, request, pc, err,
                   target_rooms, idx, cur, log>>

TrackerNext == AsyncGetPersonRoom

TrackerSpec == TrackerInit /\ [][TrackerNext]_vars

(***************************************************************************)
(* Properties.  They read the log: every entry carries the area id of the  *)
(* room it belongs to, and the rooms of target_rooms have distinct ids.    *)
(***************************************************************************)
LogIdx == 1..Len(log)

TargetIdx == 1..Len(target_rooms)

AreaOf(j) == target_rooms[j].room.area_id

\* The place of an area among the target rooms.
Pos(area) == CHOOSE j \in TargetIdx : AreaOf(j) = area

\* The log entries of kind k for an area.
Of(k, area) == { n \in LogIdx : log[n].k = k /\ log[n].area = area }

HasDevice(j) == Truthy(target_rooms[j].room.media_player)

\* The registry holds "off" for the room, for the person.
RoomOff(area) == area \in DOMAIN enabled.rooms /\ enabled.rooms[area] = "off"

PersonOff(e) == e \in DOMAIN enabled.people /\ enabled.people[e] = "off"

\* The names the request targets in room j: the targeted people found in the
\* room, else the names of the request.
TargetedIn(j) ==
    IF target_rooms[j].has_target_person THEN target_rooms[j].targeted_people
    ELSE request.target_person

\* The target person async_announce passes for room j.
TargetedOrGiven(j) ==
    IF target_rooms[j].has_target_person THEN target_rooms[j].target_person
    ELSE request.target_person

\* Room j is the target of one name, and that name is a configured person
\* whose switch is off.
SingleTargetDisabled(j) ==
    /\ Len(TargetedIn(j)) = 1
    /\ \E p \in PersonIdx : /\ PersonMatches(PEOPLE[p], TargetedIn(j)[1])
                            /\ PersonOff(PEOPLE[p].person_entity)

\* Both gates let room j through.
Permitted(j) == HasDevice(j) /\ ~RoomOff(AreaOf(j)) /\ ~SingleTargetDisabled(j)

\* _announce_to_room was called for room j.
Attempted(j) == \E n \in LogIdx : log[n].area = AreaOf(j)

\* _announce_to_room has returned or raised for room j.
Processed(j) == j < idx \/ (j = idx /\ pc = "raised")

\* C1: once async_announce has ended, every room after a room whose
\* tts.speak call failed has been attempted, and has its own tts.speak call
\* when the gates permit it.
C1_LaterRoomsAttemptedAfterTtsFailure ==
    pc \in {"done", "raised"} =>
        \A i \in TargetIdx, j \in TargetIdx :
            (i < j /\ Of("tts_fail", AreaOf(i)) # {}) =>
                /\ Attempted(j)
                /\ Permitted(j) => Of("tts_call", AreaOf(j)) # {}

\* Every target room is skipped or blocked.
AllTargetsBlocked == target_rooms # << >> /\ \A j \in TargetIdx : ~Permitted(j)

\* C2: a room that is skipped or blocked hands over to the next target room,
\* whose _announce_to_room call is what async_announce does next, or to the
\* normal return when it was the last; no skip or block makes async_announce
\* raise, and a request whose rooms are all skipped or blocked issues no
\* capability call at all.
C2_BlockedRoomHandsOver ==
    /\ \A n \in LogIdx :
         log[n].k \in {"skipped", "blocked"} =>
            \E i \in { Pos(log[n].area) } :
               IF n = Len(log)
               THEN IF i < Len(target_rooms) THEN pc = "room" /\ idx = i + 1
                    ELSE pc = "done"
               ELSE i < Len(target_rooms) /\ log[n + 1].area = AreaOf(i + 1)
    /\ pc = "room" => idx \in TargetIdx
    /\ (AllTargetsBlocked /\ pc # "called") =>
         /\ pc \in {"room", "done"}
         /\ err = ""
         /\ \A n \in LogIdx : log[n].k \in {"skipped", "blocked"}

\* A room was blocked, a later room was delivered and async_announce returned.
C2_Witness ==
    /\ pc = "done"
    /\ \E n \in LogIdx, m \in LogIdx :
         /\ n < m
         /\ log[n].k = "blocked"
         /\ log[m].k = "sent"

\* C3: a target room without media player has no capability call (AI, chime,
\* TTS, activity log) and neither a sent nor a blocked event.
C3_NoDeviceNoCallNoEvent ==
    \A n \in LogIdx :
        ~HasDevice(Pos(log[n].area)) =>
            log[n].k \notin {"ai_call", "chime_call", "tts_call", "log_call",
                             "sent", "blocked"}

\* A room without media player whose switch is off was passed over, and
\* another room of the same request was delivered.
C3_Witness ==
    /\ pc = "done"
    /\ \E n \in LogIdx, m \in LogIdx :
         /\ log[n].k = "skipped"
         /\ RoomOff(log[n].area)
         /\ log[m].k = "sent"

\* C4: a target room with a media player whose switch is off has no AI, chime
\* or TTS call, no blocked event with another reason than room_disabled, and
\* exactly one blocked event once _announce_to_room has returned for it,
\* whether its target person is enabled or not.
C4_DisabledRoomBlockedOnce ==
    \A j \in TargetIdx :
        (HasDevice(j) /\ RoomOff(AreaOf(j))) =>
            /\ \A n \in LogIdx :
                 log[n].area = AreaOf(j) =>
                    /\ log[n].k \notin {"ai_call", "chime_call", "tts_call"}
                    /\ log[n].k = "blocked" => log[n].reason = "room_disabled"
            /\ Cardinality(Of("blocked", AreaOf(j))) = IF Processed(j) THEN 1 ELSE 0

\* A disabled room whose one target person is disabled too was blocked, with
\* reason room_disabled.
C4_Witness ==
    \E j \in TargetIdx :
        /\ HasDevice(j)
        /\ RoomOff(AreaOf(j))
        /\ SingleTargetDisabled(j)
        /\ \E n \in Of("blocked", AreaOf(j)) : log[n].reason = "room_disabled"

\* C5: for an enabled target room with a media player: when its target is
\* one configured person who is disabled, the room has no tts.speak call and,
\* once _announce_to_room has returned, exactly one blocked event, with reason
\* person_disabled; in every other case, in particular when the room has no
\* single target (untargeted request, several targeted people merged into the
\* room), it has no blocked event whatever the switches of its occupants, and
\* exactly one tts.speak call once _announce_to_room has returned or raised.
C5_PersonGateOnlyForSingleTarget ==
    \A j \in TargetIdx :
        (HasDevice(j) /\ ~RoomOff(AreaOf(j))) =>
            IF SingleTargetDisabled(j)
            THEN /\ Of("tts_call", AreaOf(j)) = {}
                 /\ \A n \in Of("blocked", AreaOf(j)) :
                      log[n].reason = "person_disabled" /\ log[n].person = TargetedIn(j)
                 /\ Cardinality(Of("blocked", AreaOf(j))) = IF Processed(j) THEN 1 ELSE 0
            ELSE /\ Of("blocked", AreaOf(j)) = {}
                 /\ Processed(j) => Cardinality(Of("tts_call", AreaOf(j))) = 1

\* Two targeted people were merged into one room, one of them disabled, and
\* the room's announcement was delivered.
C5_Witness ==
    \E j \in TargetIdx :
        /\ Len(TargetedIn(j)) = 2
        /\ \E p \in PersonIdx : PersonOff(PEOPLE[p].person_entity)
        /\ Of("sent", AreaOf(j)) # {}

\* Name k of the request's target_person list is no configured person.
Unresolved(k) == GetPersonConfigByName(Strip(request.target_person[k])) = NoPerson

\* async_announce raised this error with no room attempted.
RaisedEarly(e) == pc = "raised" /\ err = e /\ target_rooms = << >> /\ log = << >>

\* C6 as stated: in every request, a name of target_person that is no
\* configured person makes async_announce raise the unconfigured-person error
\* with no capability call and no event.
C6_UnknownNameAlwaysRaises ==
    ((\E k \in 1..Len(request.target_person) : Unresolved(k)) /\ pc # "called") =>
        RaisedEarly("unconfigured_person")

\* C6: in every request without target_area, a name of target_person that
\* is no configured person makes async_announce raise the unconfigured-person
\* error with no capability call and no event.
C6_UnknownNameRaisesWithoutArea ==
    (/\ ~Truthy(request.target_area)
     /\ \E k \in 1..Len(request.target_person) : Unresolved(k)
     /\ pc # "called") =>
        RaisedEarly("unconfigured_person")

\* The first of two names is a configured person at home, the second is not
\* configured, and async_announce raised.
C6_Witness ==
    /\ Len(request.target_person) = 2
    /\ ~Unresolved(1)
    /\ personState[GetPersonConfigByName(Strip(request.target_person[1])).person_entity]
         = "home"
    /\ Unresolved(2)
    /\ RaisedEarly("unconfigured_person")

\* Two strings are equal when case is ignored.
EqualsIgnoringCase(x, y) == x.b = y.b /\ x.u = y.u /\ x.pad = y.pad /\ x.pre = y.pre

\* C7: with target_area given, the target rooms are the configured rooms
\* whose room name or area id equals it ignoring case, each once, in the
\* configured order and without target person, whatever target_person, the
\* tracking and presence flags and the occupancy are; with no such room
\* async_announce raises the unconfigured-area error and attempts no room.
C7_AreaTargetsMatchingRooms ==
    (Truthy(request.target_area) /\ pc # "called") =>
        \E matching \in { { i \in RoomIdx :
                             \/ EqualsIgnoringCase(ROOMS[i].room_name, request.target_area)
                             \/ EqualsIgnoringCase(ROOMS[i].area_id, request.target_area) } } :
            IF matching = {} THEN RaisedEarly("unconfigured_area")
            ELSE /\ pc # "raised" \/ err = "tts_failed"
                 /\ Len(target_rooms) = Cardinality(matching)
                 /\ \A i \in matching : \E j \in TargetIdx : target_rooms[j].room = ROOMS[i]
                 /\ \A j \in TargetIdx, k \in TargetIdx :
                      j < k => \E a \in matching, b \in matching :
                                  /\ a < b
                                  /\ target_rooms[j].room = ROOMS[a]
                                  /\ target_rooms[k].room = ROOMS[b]
                 /\ \A j \in TargetIdx : ~target_rooms[j].has_target_person

\* An area that matches one room by id and another by name gave both rooms,
\* with an unconfigured target person, nobody at home and every flag off.
C7_Witness ==
    /\ Len(target_rooms) = 2
    /\ Truthy(request.target_area)
    /\ request.target_person # << >>
    /\ Unresolved(1)
    /\ \A e \in PersonIds : personState[e] = "not_home"
    /\ ~entry_data.room_tracking
    /\ ~entry_data.presence_verification
    /\ pc = "done"

\* No sensor is on and no person at home is tracked into a configured room.
NoRoomOccupied ==
    /\ RoomsWithPresence = {}
    /\ \A p \in PersonIdx :
         \/ personState[PEOPLE[p].person_entity] # "home"
         \/ GetAreaFromEntity(tracker[PEOPLE[p].person_entity]) \notin RoomIds

\* Every targeted name is a configured person and none of them is home.
TargetsConfiguredNoneHome ==
    /\ request.target_person # << >>
    /\ \A k \in 1..Len(request.target_person) :
         /\ ~Unresolved(k)
         /\ personState[GetPersonConfigByName(Strip(request.target_person[k])).person_entity]
              # "home"

Untargeted == request.target_person = << >> /\ ~Truthy(request.target_area)

\* C8 as stated: every targeted person configured and none home gives the
\* person-not-home error with no capability call; an untargeted request with
\* no room occupied gives the no-occupied-rooms error.
C8_NobodyHomeAlwaysRaises ==
    pc # "called" =>
        /\ TargetsConfiguredNoneHome => RaisedEarly("person_not_home")
        /\ (Untargeted /\ NoRoomOccupied) => RaisedEarly("no_occupied_rooms")

\* C8: without target_area, every targeted person configured and none home
\* gives the person-not-home error, which is not the unconfigured-person
\* error, with an empty target list and no capability call; an untargeted
\* request with room tracking or presence verification in effect and no room
\* occupied gives the no-occupied-rooms error.
C8_NobodyHomeRaises ==
    pc # "called" =>
        /\ (TargetsConfiguredNoneHome /\ ~Truthy(request.target_area)) =>
              /\ RaisedEarly("person_not_home")
              /\ err # "unconfigured_person"
        /\ (/\ Untargeted
            /\ EffRoomTracking \/ EffPresenceVerification
            /\ NoRoomOccupied) => RaisedEarly("no_occupied_rooms")

\* Two configured people were targeted, neither was home, and async_announce
\* raised the person-not-home error.
C8_Witness ==
    /\ Len(request.target_person) = 2
    /\ TargetsConfiguredNoneHome
    /\ RaisedEarly("person_not_home")

\* An untargeted request found no room occupied and raised.
C8_WitnessUntargeted ==
    /\ Untargeted
    /\ NoRoomOccupied
    /\ RaisedEarly("no_occupied_rooms")

\* C9: an error of conversation.process or of media_player.play_media never
\* ends async_announce: after it the room's tts.speak call has been issued
\* or the room still stands before it (in the chime or its delay), and when
\* async_announce raised all the same the error is the one of tts.speak;
\* and the text of a tts.speak call that follows a failed
\* conversation.process call, or one that returned no text, is the text that
\* was handed to conversation.process, with no AI rewrite in it.
C9_AiAndChimeFailuresContained ==
    /\ \A n \in LogIdx :
         log[n].k \in {"ai_fail", "ai_no_text", "chime_fail"} =>
            /\ \/ Of("tts_call", log[n].area) # {}
               \/ /\ pc \in {"chime_wait", "delay"}
                  /\ cur.room.area_id = log[n].area
            /\ pc = "raised" => (err = "tts_failed" /\ log[Len(log)].k = "tts_fail")
            /\ log[n].k = "chime_fail" =>
                 (n < Len(log) /\ log[n + 1].k = "tts_call" /\ log[n + 1].area = log[n].area)
    /\ \A n \in LogIdx, m \in LogIdx :
         (/\ n < m
          /\ log[n].k \in {"ai_fail", "ai_no_text"}
          /\ log[m].k = "tts_call"
          /\ log[m].area = log[n].area) =>
            /\ log[n - 1].k = "ai_call"
            /\ log[m].msg = log[n - 1].msg
            /\ log[m].msg.ai = "none"

\* In one room conversation.process raised, the chime raised, and the
\* announcement was delivered with a personalized text.
C9_Witness ==
    \E a \in RoomIds :
        /\ Of("ai_fail", a) # {}
        /\ Of("chime_fail", a) # {}
        /\ \E m \in Of("sent", a) : log[m].msg.form = "prepend"

Rank(k) ==
    CASE k = "ai_call" -> 1
      [] k \in {"ai_text", "ai_no_text", "ai_fail"} -> 2
      [] k = "chime_call" -> 3
      [] k \in {"chime_ok", "chime_fail"} -> 4
      [] k = "delay_done" -> 5
      [] k = "tts_call" -> 6
      [] k \in {"tts_ok", "tts_fail"} -> 7
      [] k = "log_call" -> 8
      [] k = "sent" -> 9
      [] OTHER -> 0

\* The entries of one room come in the order AI call, chime call, delay,
\* TTS call, sent event, each at most once, and only in a room that both
\* gates let through.
RoomOrder ==
    /\ \A n \in LogIdx, m \in LogIdx :
         (n < m /\ log[n].area = log[m].area) =>
            /\ Rank(log[n].k) > 0
            /\ Rank(log[n].k) < Rank(log[m].k)
    /\ \A n \in LogIdx : Rank(log[n].k) > 0 => Permitted(Pos(log[n].area))
    /\ pc \in {"chime_wait", "delay"} => Of("tts_call", cur.room.area_id) = {}

\* Entry n is followed by the end of the delay before the room's tts.speak call.
DelayHeldAfter(n) ==
    \A m \in Of("tts_call", log[n].area) :
        \E x \in Of("delay_done", log[n].area) : n < x /\ x < m

\* C11 as stated: the entries of a room attempt come in the fixed order, and
\* every chime call issued with a positive configured delay is followed by
\* the full delay before the room's tts.speak call.
C11_DelayAfterEveryChimeCall ==
    /\ RoomOrder
    /\ \A n \in LogIdx :
         (log[n].k = "chime_call" /\ entry_data.pre_announce_delay > 0) =>
            DelayHeldAfter(n)

\* C11: the entries of a room attempt come in the fixed order, and every
\* chime call that returned without error under a positive configured delay
\* is followed by the full delay before the room's tts.speak call.
C11_DelayAfterChimeReturn ==
    /\ RoomOrder
    /\ \A n \in LogIdx :
         (log[n].k = "chime_ok" /\ entry_data.pre_announce_delay > 0) =>
            DelayHeldAfter(n)

\* One room went through the AI call, the chime, the delay, the TTS call and
\* the sent event.
C11_Witness ==
    \E a \in RoomIds :
        /\ Of("ai_call", a) # {}
        /\ Of("chime_ok", a) # {}
        /\ Of("delay_done", a) # {}
        /\ Of("sent", a) # {}

\* Whether pre-announce is enabled for the request: the per-call value when
\* supplied, else the configured value, else true; and a chime URL is set.
ChimeExpected ==
    /\ IF request.pre_announce_sound = "true" THEN TRUE
       ELSE IF request.pre_announce_sound = "false" THEN FALSE
       ELSE IF entry_data.pre_announce_enabled = "true" THEN TRUE
       ELSE IF entry_data.pre_announce_enabled = "false" THEN FALSE
       ELSE TRUE
    /\ Truthy(entry_data.pre_announce_url)

\* C12: a room whose tts.speak call was issued has a chime call before it
\* exactly when pre-announce is enabled (per-call value, else configured
\* value, else true) and a chime URL is configured; when it is not, no room
\* has a chime call, a chime return or a delay.
C12_ChimeIffEnabledAndUrl ==
    /\ \A n \in LogIdx :
         log[n].k = "tts_call" =>
            (ChimeExpected <=> \E m \in Of("chime_call", log[n].area) : m < n)
    /\ ~ChimeExpected =>
         \A n \in LogIdx : log[n].k \notin {"chime_call", "chime_ok", "chime_fail", "delay_done"}

\* The configuration disables pre-announce, the call enables it, and the
\* chime was played before the announcement.
C12_Witness ==
    /\ entry_data.pre_announce_enabled = "false"
    /\ request.pre_announce_sound = "true"
    /\ \E n \in LogIdx : log[n].k = "chime_call"
    /\ \E n \in LogIdx : log[n].k = "sent"

\* The call disables a pre-announce that the configuration leaves at its
\* default, the chime URL is set, and the announcement went out without chime.
C12_WitnessOff ==
    /\ entry_data.pre_announce_enabled = "none"
    /\ request.pre_announce_sound = "false"
    /\ Truthy(entry_data.pre_announce_url)
    /\ \E n \in LogIdx : log[n].k = "sent"

\* _announce_to_room is between its gates and its return for the room at idx.
InRoom == pc \in {"ai_wait", "chime_wait", "delay", "tts_wait"}

\* The configured people the tracker finds in an area.
Occupants(area) ==
    { p \in PersonIdx : GetPersonRoom(PEOPLE[p].person_entity) = area }

\* The configured people the target person of room j names, when it is one name.
TargetPeople(j) ==
    IF Len(TargetedOrGiven(j)) = 1
    THEN { p \in PersonIdx : PersonMatches(PEOPLE[p], TargetedOrGiven(j)[1]) }
    ELSE {}

\* The settings are those of configured person p; those of the group.
SettingsOfPerson(settings, p) ==
    /\ settings.conversation_entity = PEOPLE[p].conversation_entity
    /\ settings.language = PEOPLE[p].language
    /\ settings.tts_platform = PEOPLE[p].tts_platform
    /\ settings.tts_voice = PEOPLE[p].tts_voice
    /\ settings.enhance_with_ai = PEOPLE[p].enhance_with_ai
    /\ settings.translate_announcement = PEOPLE[p].translate_announcement

SettingsOfGroup(settings) ==
    /\ settings.conversation_entity = GROUP.group_conversation_entity
    /\ settings.language = GROUP.group_language
    /\ settings.tts_platform = GROUP.group_tts_platform
    /\ settings.tts_voice = GROUP.group_tts_voice
    /\ settings.enhance_with_ai = GROUP.group_enhance_with_ai
    /\ settings.translate_announcement = GROUP.group_translate_announcement

\* C13: the settings of a room attempt are those of the room's target person
\* when one is given and configured; else those of the group when the
\* tracker finds two or more people in the room; else those of the one
\* person it finds; else those of the group.
C13_SettingsPriority ==
    InRoom =>
        \E target \in { TargetPeople(idx) }, occupants \in { Occupants(AreaOf(idx)) } :
            IF target # {} THEN \E p \in target : SettingsOfPerson(cur.settings, p)
            ELSE IF Cardinality(occupants) >= 2 THEN SettingsOfGroup(cur.settings)
            ELSE IF Cardinality(occupants) = 1
            THEN \E p \in occupants : SettingsOfPerson(cur.settings, p)
            ELSE SettingsOfGroup(cur.settings)

\* Two people with different languages share a room, the request names no
\* target, and the room is announced to in the group's language.
C13_Witness ==
    /\ InRoom
    /\ request.target_person = << >>
    /\ \E p \in Occupants(AreaOf(idx)), q \in Occupants(AreaOf(idx)) :
         PEOPLE[p].language # PEOPLE[q].language
    /\ cur.settings.language = GROUP.group_language
    /\ \A p \in PersonIdx : PEOPLE[p].language # GROUP.group_language

\* The name the personalization of room j is to use, << >> when there is
\* none: the friendly name of the target person (the name as given when it
\* is no configured person), else the group addressee for two or more
\* occupants, else the friendly name of the sole occupant.
ExpectedName(j) ==
    CHOOSE name \in
        { IF TargetedOrGiven(j) # << >>
          THEN IF target # {}
               THEN <<GetPersonFriendlyName(PEOPLE[CHOOSE p \in target : TRUE].person_entity)>>
               ELSE TargetedOrGiven(j)
          ELSE IF Cardinality(occupants) >= 2 THEN <<GROUP.group_addressee>>
          ELSE IF Cardinality(occupants) = 1
          THEN <<GetPersonFriendlyName(PEOPLE[CHOOSE p \in occupants : TRUE].person_entity)>>
          ELSE << >>
          : target \in { TargetPeople(j) }, occupants \in { Occupants(AreaOf(j)) } } : TRUE

\* The placeholder of the request's message replaced by name.
Substituted(name) ==
    [request.message EXCEPT !.ph = FALSE, !.name = name, !.form = "subst"]

\* "<name>, <message>" for the request's message.
Prepended(name) ==
    [request.message EXCEPT !.name = name, !.form = "prepend"]

\* C14 as stated: the resolved name is substituted for the placeholder,
\* else prepended, and a message for which no name was resolved is left
\* unmodified.
C14_NoNameLeavesMessageUnmodified ==
    InRoom =>
        \E name \in { ExpectedName(idx) } :
            cur.personalized =
                IF name = << >> THEN request.message
                ELSE IF request.message.ph THEN Substituted(name)
                ELSE Prepended(name)

\* C14: the resolved name is substituted for the placeholder, else
\* prepended; when no name was resolved a message without the placeholder
\* is left unmodified and the placeholder of a message that has one is
\* replaced by the group addressee.
C14_Personalization ==
    InRoom =>
        \E name \in { ExpectedName(idx) } :
            cur.personalized =
                IF request.message.ph
                THEN Substituted(IF name = << >> THEN <<GROUP.group_addressee>> ELSE name)
                ELSE IF name = << >> THEN request.message
                ELSE Prepended(name)

\* A message with the placeholder is announced to a room for which no name
\* is resolved, and the group addressee stands where the placeholder stood.
C14_Witness ==
    /\ InRoom
    /\ request.message.ph
    /\ TargetedOrGiven(idx) = << >>
    /\ Occupants(AreaOf(idx)) = {}
    /\ cur.personalized = Substituted(<<GROUP.group_addressee>>)
    /\ cur.personalized # request.message

\* The three other cases: a name substituted, a name prepended, and a
\* message without placeholder or name that is passed on as it came.
C14_WitnessSubstituted ==
    /\ InRoom /\ request.message.ph /\ ExpectedName(idx) # << >>
    /\ cur.personalized = Substituted(ExpectedName(idx))

C14_WitnessPrepended ==
    /\ InRoom /\ ~request.message.ph /\ ExpectedName(idx) # << >>
    /\ cur.personalized = Prepended(ExpectedName(idx))

C14_WitnessUnmodified ==
    /\ InRoom /\ ~request.message.ph /\ ExpectedName(idx) = << >>
    /\ cur.personalized = request.message

\* The enhance and translate flags in effect for the room in hand: the
\* per-call value when the request carries one, else the selected settings'.
EnhanceInEffect ==
    IF request.enhance_with_ai = "none" THEN cur.settings.enhance_with_ai
    ELSE request.enhance_with_ai = "true"

TranslateInEffect ==
    IF request.translate_announcement = "none" THEN cur.settings.translate_announcement
    ELSE request.translate_announcement = "true"

AgentConfigured == cur.settings.conversation_entity # NoStr

\* C15: conversation.process is called for a room iff a flag in effect is
\* true and the selected settings have an agent; it is called once, for
\* that agent, on the personalized text, with the translate template when
\* only translate is in effect, the enhance template when only enhance is,
\* and the template for both when both are; a room without the call has
\* the personalized text in its tts.speak call.
C15_AiCallIffFlagAndAgent ==
    InRoom =>
        \E calls \in { Of("ai_call", AreaOf(idx)) } :
            /\ calls # {} <=> (EnhanceInEffect \/ TranslateInEffect) /\ AgentConfigured
            /\ Cardinality(calls) <= 1
            /\ \A n \in calls :
                 /\ log[n].msg = cur.personalized
                 /\ log[n].target = cur.settings.conversation_entity
                 /\ log[n].reason = IF EnhanceInEffect /\ TranslateInEffect THEN "both"
                                    ELSE IF EnhanceInEffect THEN "enhance"
                                    ELSE "translate"
            /\ calls = {} => \A n \in Of("tts_call", AreaOf(idx)) :
                                log[n].msg = cur.personalized

\* The request's flags turn a person's enhancement off and translation on,
\* and the one call made carries the translate-only template.
C15_Witness ==
    /\ InRoom
    /\ request.enhance_with_ai = "false" /\ cur.settings.enhance_with_ai
    /\ request.translate_announcement = "true" /\ ~cur.settings.translate_announcement
    /\ \E n \in Of("ai_call", AreaOf(idx)) : log[n].reason = "translate"

\* A flag is in effect but the selected settings have no agent: no call,
\* and tts.speak gets the personalized text.
C15_WitnessNoAgent ==
    /\ pc = "tts_wait"
    /\ EnhanceInEffect /\ ~AgentConfigured
    /\ Of("ai_call", AreaOf(idx)) = {}
    /\ \E n \in Of("tts_call", AreaOf(idx)) :
         log[n].msg = cur.personalized /\ cur.personalized # request.message

\* An agent is configured but both flags are turned off by the request.
C15_WitnessFlagsOff ==
    /\ pc = "tts_wait"
    /\ AgentConfigured /\ cur.settings.enhance_with_ai
    /\ ~EnhanceInEffect /\ ~TranslateInEffect
    /\ Of("ai_call", AreaOf(idx)) = {}
    /\ \E n \in Of("tts_call", AreaOf(idx)) : log[n].msg = cur.personalized

\* The other two templates are used as well.
C15_WitnessTemplates ==
    /\ pc = "done"
    /\ \E n \in LogIdx : log[n].k = "ai_call" /\ log[n].reason \in {"enhance", "both"}

\* The id of the area whose name equals v ignoring case, NoStr when v is
\* empty or no area has that name.
AreaNamed(v) ==
    IF Truthy(v) /\ \E a \in AREAS : EqualsIgnoringCase(a.name, v)
    THEN (CHOOSE a \in AREAS : EqualsIgnoringCase(a.name, v)).id
    ELSE NoStr

\* The values of a tracking entity in the order they are tried: its state
\* unless that is a reserved value, its area attribute, its room attribute.
SignalValues(st) ==
    << IF \E r \in ReservedStates : EqualsIgnoringCase(r, st.state) THEN NoStr
       ELSE st.state,
       st.area, st.room >>

\* The area of the first of these values that names an area.
FirstMatch(st) ==
    LET hits == { k \in 1..3 : Truthy(AreaNamed(SignalValues(st)[k])) } IN
    IF ~st.exists \/ hits = {} THEN NoStr
    ELSE AreaNamed(SignalValues(st)[CHOOSE k \in hits : \A m \in hits : k <= m])

\* The recorded call was for a configured person who is home, is away.
LookedUpHome ==
    /\ person_room.called
    /\ person_room.person_entity \in PersonIds
    /\ personState[person_room.person_entity] = "home"

LookedUpAway ==
    /\ person_room.called
    /\ person_room.person_entity \in PersonIds
    /\ personState[person_room.person_entity] # "home"

\* C16: async_get_person_room returns None for a person whose state is not
\* "home", and does so without reading the tracking entity; for a person
\* who is home it reads the entity and, unless presence verification
\* withholds it, returns the area of the first match among the entity's
\* state (unless reserved), its area attribute and its room attribute,
\* compared with the area names ignoring case, and None when none matches.
C16_PersonRoomFromSignal ==
    /\ LookedUpAway => person_room.area_id = NoStr /\ ~person_room.signal_read
    /\ LookedUpHome =>
         \E match \in { FirstMatch(tracker[person_room.person_entity]) } :
            /\ person_room.signal_read
            /\ ~entry_data.presence_verification => person_room.area_id = match
            /\ person_room.area_id \in {match, NoStr}

\* A person who is away while the tracking entity names the kitchen: None.
C16_Witness ==
    /\ LookedUpAway
    /\ personState[person_room.person_entity] = "not_home"
    /\ tracker[person_room.person_entity].exists
    /\ tracker[person_room.person_entity].state = Str("kitchen", "", "Ti")
    /\ person_room.area_id = NoStr

\* A person who is home: the state names the room; the state is reserved
\* and the area attribute names it; neither does and the room attribute
\* names it; nothing names an area.
C16_WitnessState ==
    /\ LookedUpHome /\ ~entry_data.presence_verification
    /\ tracker[person_room.person_entity].state = Str("kitchen", "", "UP")
    /\ tracker[person_room.person_entity].area = Str("study", "", "UP")
    /\ person_room.area_id = Str("kitchen", "", "lo")

C16_WitnessReserved ==
    /\ LookedUpHome /\ ~entry_data.presence_verification
    /\ tracker[person_room.person_entity].state = Str("home", "", "lo")
    /\ tracker[person_room.person_entity].area = Str("study", "", "UP")
    /\ person_room.area_id = Str("office", "", "lo")

C16_WitnessRoomAttribute ==
    /\ LookedUpHome /\ ~entry_data.presence_verification
    /\ tracker[person_room.person_entity].state = Str("attic", "", "lo")
    /\ tracker[person_room.person_entity].area = Str("attic", "", "lo")
    /\ tracker[person_room.person_entity].room = Str("office", "", "Ti")
    /\ person_room.area_id = Str("office2", "_", "lo")

C16_WitnessNoMatch ==
    /\ LookedUpHome
    /\ tracker[person_room.person_entity].exists
    /\ tracker[person_room.person_entity].state = Str("unknown", "", "Ti")
    /\ tracker[person_room.person_entity].area = NoStr
    /\ tracker[person_room.person_entity].room = Str("attic", "", "lo")
    /\ person_room.area_id = NoStr

\* The occupancy sensors configured for an area, none when the area is no
\* configured room.
SensorsOf(area_id) ==
    { x \in Sensors : \E i \in RoomIdx :
        /\ ROOMS[i].area_id = area_id
        /\ \E k \in 1..Len(ROOMS[i].presence_sensors) : ROOMS[i].presence_sensors[k] = x }

\* C17: with presence verification configured on, async_get_person_room
\* returns the room the tracking entity names iff the room has no
\* configured sensors or one of them is "on"; otherwise it returns None.
C17_PresenceGatesTrackedRoom ==
    (LookedUpHome /\ entry_data.presence_verification) =>
        \E match \in { FirstMatch(tracker[person_room.person_entity]) } :
            Truthy(match) =>
                /\ person_room.area_id = match
                     <=> \/ SensorsOf(match) = {}
                         \/ \E x \in SensorsOf(match) : sensorState[x] = "on"
                /\ person_room.area_id # match => person_room.area_id = NoStr

\* The tracking entity names the kitchen, the kitchen's sensor is off and
\* another room's sensor is on: None.
C17_Witness ==
    /\ LookedUpHome /\ entry_data.presence_verification
    /\ FirstMatch(tracker[person_room.person_entity]) = Str("kitchen", "", "lo")
    /\ sensorState["s_kitchen"] = "off" /\ sensorState["s_office"] = "on"
    /\ person_room.area_id = NoStr

\* The sensor is on; the room has no sensors; the area is no configured room.
C17_WitnessSensorOn ==
    /\ LookedUpHome /\ entry_data.presence_verification
    /\ sensorState["s_kitchen"] = "on"
    /\ person_room.area_id = Str("kitchen", "", "lo")

C17_WitnessNoSensors ==
    /\ LookedUpHome /\ entry_data.presence_verification
    /\ person_room.person_entity = PersonId("mike", "")
    /\ sensorState = [x \in Sensors |-> "off"]
    /\ person_room.area_id = Str("office", "", "lo")

C17_WitnessOtherArea ==
    /\ LookedUpHome /\ entry_data.presence_verification
    /\ sensorState = [x \in Sensors |-> "off"]
    /\ person_room.area_id = Str("garden", "", "lo")

\* The area has no configured sensor, or one of its sensors is "on".
PresenceVerified(area_id) ==
    SensorsOf(area_id) = {} \/ \E x \in SensorsOf(area_id) : sensorState[x] = "on"

\* The request names one configured person, who is home and whose tracking
\* entity names a configured room, and room tracking is in effect.
OneTrackedTarget(p) ==
    /\ ~Truthy(request.target_area)
    /\ Len(request.target_person) = 1
    /\ PersonMatches(PEOPLE[p], Strip(request.target_person[1]))
    /\ EffRoomTracking
    /\ personState[PEOPLE[p].person_entity] = "home"
    /\ FirstMatch(tracker[PEOPLE[p].person_entity]) \in RoomIds

\* C18 as stated, for presence_verification: the value in effect for the
\* request (the per-call value when given, else the configured one) decides
\* whether the lookup of a targeted person's room applies the sensor check;
\* the person's room is the request's target exactly when the check is not
\* in effect or the room's sensors confirm it.
C18_PerCallPresenceDecidesLookup ==
    pc # "called" =>
        \A p \in PersonIdx :
            OneTrackedTarget(p) =>
                \E room \in { FirstMatch(tracker[PEOPLE[p].person_entity]) } :
                    (\E j \in TargetIdx : AreaOf(j) = room /\ target_rooms[j].has_target_person)
                        <=> (~EffPresenceVerification \/ PresenceVerified(room))

\* What the person-room lookup returns for configured person p: the area
\* the tracking entity names when the person is home, withheld when the
\* configured presence verification finds the area's sensors all off.
LookupResult(p) ==
    CHOOSE area \in
        { IF /\ personState[PEOPLE[p].person_entity] = "home"
             /\ Truthy(match)
             /\ entry_data.presence_verification => PresenceVerified(match)
          THEN match ELSE NoStr
          : match \in { FirstMatch(tracker[PEOPLE[p].person_entity]) } } : TRUE

\* The areas of the rooms with a sensor that is "on"; the areas the lookup
\* returns for the configured people.
AreasWithSensorOn ==
    { a \in RoomIds : \E x \in SensorsOf(a) : sensorState[x] = "on" }

AreasOfTrackedPeople == { LookupResult(p) : p \in PersonIdx } \ {NoStr}

\* The place of a configured room in the configuration.
ConfiguredPos(area_id) == CHOOSE i \in RoomIdx : ROOMS[i].area_id = area_id

\* The target rooms are the configured rooms with these areas, each once,
\* in the configured order, none with a target person.
TargetsAre(areas) ==
    /\ { AreaOf(j) : j \in TargetIdx } = areas \cap RoomIds
    /\ \A j \in TargetIdx, k \in TargetIdx :
         j < k => ConfiguredPos(AreaOf(j)) < ConfiguredPos(AreaOf(k))
    /\ \A j \in TargetIdx :
         /\ target_rooms[j].room = ROOMS[ConfiguredPos(AreaOf(j))]
         /\ ~target_rooms[j].has_target_person

\* C19: for a request with neither target area nor target person, when
\* room tracking or presence verification is in effect the target rooms
\* are the configured rooms whose area is among the areas with a sensor
\* "on" (presence in effect) or among the areas the person-room lookup
\* returns for the configured people (tracking in effect); when neither is
\* in effect they are the configured rooms with a media player.
C19_UntargetedRooms ==
    (pc # "called" /\ Untargeted) =>
        IF EffRoomTracking \/ EffPresenceVerification
        THEN \E sensed \in { AreasWithSensorOn }, tracked \in { AreasOfTrackedPeople } :
                TargetsAre((IF EffPresenceVerification THEN sensed ELSE {})
                              \cup (IF EffRoomTracking THEN tracked ELSE {}))
        ELSE TargetsAre({ a \in RoomIds : Truthy(ROOMS[ConfiguredPos(a)].media_player) })

\* Both in effect: one room is a target for its sensor alone, another for
\* the person tracked to it alone.
C19_Witness ==
    /\ pc # "called" /\ Untargeted
    /\ EffRoomTracking /\ EffPresenceVerification
    /\ \E j \in TargetIdx, k \in TargetIdx :
         /\ AreaOf(j) \in AreasWithSensorOn \ AreasOfTrackedPeople
         /\ AreaOf(k) \in AreasOfTrackedPeople \ AreasWithSensorOn

\* Neither in effect and nobody home: every room with a media player.
C19_WitnessBroadcast ==
    /\ pc # "called" /\ Untargeted
    /\ ~EffRoomTracking /\ ~EffPresenceVerification
    /\ \A e \in PersonIds : personState[e] = "not_home"
    /\ Len(target_rooms) = 2

\* The names of the request, trimmed; every one of them is a configured person.
TargetNames == [k \in 1..Len(request.target_person) |-> Strip(request.target_person[k])]

AllNamesConfigured ==
    \A k \in 1..Len(TargetNames) : \E p \in PersonIdx : PersonMatches(PEOPLE[p], TargetNames[k])

\* The room the k-th name of the request resolves to, NoStr for none: what
\* the lookup returns for that person when room tracking is in effect.
ResolvedRoom(k) ==
    IF EffRoomTracking
    THEN LookupResult(CHOOSE p \in PersonIdx : PersonMatches(PEOPLE[p], TargetNames[k]))
    ELSE NoStr

\* The names of the request that resolve to an area, in the request's order.
NamesIn(area_id) ==
    CHOOSE names \in
        { [k \in 1..Len(order) |-> TargetNames[order[k]]]
          : order \in { SelectIdx(Len(TargetNames), 1,
                                  { k \in 1..Len(TargetNames) : ResolvedRoom(k) = area_id }) } }
        : TRUE

\* C20: for a request that names configured people and no area, the
\* targets that carry people are one per distinct configured room some
\* targeted person resolves to; each carries exactly the targeted people
\* resolved to it, has that person as its target person when it is one and
\* none when they are several, and is announced to with that target person.
C20_OneTargetPerOccupiedRoom ==
    (pc # "called" /\ request.target_person # << >> /\ ~Truthy(request.target_area)
        /\ AllNamesConfigured) =>
        \E carrying \in { { j \in TargetIdx : target_rooms[j].has_target_person } } :
            /\ { AreaOf(j) : j \in carrying }
                 = { ResolvedRoom(k) : k \in 1..Len(TargetNames) } \cap RoomIds
            /\ \A j \in carrying, k \in carrying : AreaOf(j) = AreaOf(k) => j = k
            /\ carrying # {} => carrying = TargetIdx
            /\ \A j \in carrying :
                 \E names \in { NamesIn(AreaOf(j)) } :
                    /\ target_rooms[j].targeted_people = names
                    /\ target_rooms[j].target_person
                         = IF Len(names) = 1 THEN names ELSE << >>
                    /\ \A n \in Of("tts_call", AreaOf(j)) :
                         log[n].person = IF Len(names) = 1 THEN names ELSE << >>

\* Two targeted people in different rooms: two targets, each with its own
\* person, each announced to with that person as target.
C20_Witness ==
    /\ pc = "done"
    /\ Len(request.target_person) = 2 /\ Len(target_rooms) = 2
    /\ target_rooms[1].targeted_people = <<TargetNames[1]>>
    /\ target_rooms[2].targeted_people = <<TargetNames[2]>>
    /\ TargetNames[1] # TargetNames[2]
    /\ \E n \in Of("tts_call", AreaOf(1)) : log[n].person = <<TargetNames[1]>>
    /\ \E n \in Of("tts_call", AreaOf(2)) : log[n].person = <<TargetNames[2]>>

\* Two targeted people in the same room: one target with both and no
\* single target person.
C20_WitnessMerged ==
    /\ pc = "done"
    /\ Len(request.target_person) = 2 /\ Len(target_rooms) = 1
    /\ TargetNames[1] # TargetNames[2]
    /\ target_rooms[1].targeted_people = TargetNames
    /\ target_rooms[1].target_person = << >>
    /\ \E n \in Of("tts_call", AreaOf(1)) : log[n].person = << >>

\* The areas async_get_occupied_rooms is to return for the flags in effect.
OccupiedAreas ==
    CHOOSE areas \in
        { (IF EffPresenceVerification THEN sensed ELSE {})
             \cup (IF EffRoomTracking THEN tracked ELSE {})
          : sensed \in { AreasWithSensorOn }, tracked \in { AreasOfTrackedPeople } } : TRUE

\* The request names configured people only and no area.
PeopleRequest ==
    /\ request.target_person # << >>
    /\ ~Truthy(request.target_area)
    /\ AllNamesConfigured

\* The k-th name of the request is a person who is home.
NameIsHome(k) ==
    \E p \in PersonIdx :
        /\ PersonMatches(PEOPLE[p], TargetNames[k])
        /\ personState[PEOPLE[p].person_entity] = "home"

\* C21 as stated: whenever some targeted person has no resolvable room and
\* some targeted person is home, the target rooms are the configured rooms
\* among the occupied areas, with or without target people.
C21_DroppedPersonFallsBackToOccupied ==
    (pc # "called" /\ PeopleRequest
        /\ (\E k \in 1..Len(TargetNames) : ResolvedRoom(k) \notin RoomIds)
        /\ (\E k \in 1..Len(TargetNames) : NameIsHome(k))) =>
        \E areas \in { OccupiedAreas } :
            { AreaOf(j) : j \in TargetIdx } = areas \cap RoomIds

\* Two people are targeted and home; the first resolves to a room, the
\* second to none, and a room the second may be in is occupied: the only
\* target is the first person's room.
C21_PartialResolution ==
    /\ pc = "done" /\ PeopleRequest
    /\ Len(TargetNames) = 2 /\ NameIsHome(1) /\ NameIsHome(2)
    /\ ResolvedRoom(1) \in RoomIds /\ ResolvedRoom(2) \notin RoomIds
    /\ Len(target_rooms) = 1
    /\ target_rooms[1].targeted_people = <<TargetNames[1]>>
    /\ request.room_tracking = "none" /\ request.presence_verification = "none"
    /\ OccupiedAreas \cap RoomIds # { AreaOf(1) }

\* Room j has reached its terminal state: skipped, blocked, or delivered.
Terminal(j) ==
    \E n \in LogIdx :
        log[n].area = AreaOf(j) /\ log[n].k \in {"skipped", "blocked", "sent"}

\* Rooms are processed one after another: the log never goes back to an
\* earlier room, and every room before the one in hand is terminal.
OneAfterAnother ==
    /\ \A n \in LogIdx, m \in LogIdx :
         n < m => Pos(log[n].area) <= Pos(log[m].area)
    /\ \A j \in TargetIdx : (j < idx /\ pc # "called") => Terminal(j)
    /\ \A j \in TargetIdx : j > idx => ~Attempted(j)

Returned == pc = "done"

Ended == pc \in {"done", "raised"}

\* C22: async_announce has returned only when every target room is
\* skipped, blocked or delivered, the rooms having been processed one
\* after another; and when every awaited call returns or raises in the
\* end, async_announce returns or raises in the end, with no call pending.
C22_ReturnsAfterEveryRoom ==
    /\ [](OneAfterAnother /\ (Returned => \A j \in TargetIdx : Terminal(j)))
    /\ <>Ended

\* async_announce has returned from a request with two rooms, one blocked
\* and one delivered after a chime, a delay and an AI call.
C22_Witness ==
    /\ Returned
    /\ Len(target_rooms) = 2
    /\ \E j \in TargetIdx : Of("blocked", AreaOf(j)) # {}
    /\ \E j \in TargetIdx :
         /\ Of("sent", AreaOf(j)) # {}
         /\ Of("delay_done", AreaOf(j)) # {}
         /\ Of("ai_call", AreaOf(j)) # {}

\* The three kinds of match of a name with person i of the looked-up list,
\* each ignoring case: the friendly name; the identifier without "person.";
\* that with underscores replaced by spaces.
MatchOfKind(kind, i, name) ==
    LET person == lookup.people[i]
        suffix == DropPersonPrefix(person.person_entity)
    IN CASE kind = 1 ->
              EqualsIgnoringCase(FriendlyNameOf(person.friendly_name, person.person_entity), name)
         [] kind = 2 -> EqualsIgnoringCase(suffix, name)
         [] kind = 3 -> EqualsIgnoringCase(UnderscoresToSpaces(suffix), name)

\* The person found by the earliest kind of match that finds anybody, 0
\* when no kind does.
EarliestKindMatch(name) ==
    LET kinds == { k \in 1..3 : \E i \in 1..Len(lookup.people) : MatchOfKind(k, i, name) } IN
    IF kinds = {} THEN 0
    ELSE LET kind == CHOOSE k \in kinds : \A m \in kinds : k <= m
             hits == { i \in 1..Len(lookup.people) : MatchOfKind(kind, i, name) }
         IN CHOOSE i \in hits : \A j \in hits : i <= j

\* C23 as stated: for a name that is not an entity id, the person returned
\* is the one found by the earliest kind of match (friendly name, then
\* identifier suffix, then suffix with spaces for underscores), also when
\* another configured person matches by a later kind.
C23_EarliestMatchKindWins ==
    (lookup.called /\ ~lookup.person_name.pre) =>
        lookup.found = EarliestKindMatch(lookup.person_name)

\* The lookup returns the first configured person that matches by any
\* kind: here one that matches by its identifier only, listed before the
\* person whose friendly name is the name asked for.
C23_LaterKindOfEarlierPerson ==
    /\ lookup.called /\ ~lookup.person_name.pre
    /\ lookup.found = 1
    /\ ~MatchOfKind(1, 1, lookup.person_name) /\ MatchOfKind(2, 1, lookup.person_name)
    /\ MatchOfKind(1, 2, lookup.person_name)

\* Every switch shows what the gate of the Announcer reads for it.
SwitchesShowGates ==
    /\ \A e \in PersonIds : is_on.people[e] = IsPersonEnabled(e)
    /\ \A a \in RoomIds : is_on.rooms[a] = IsRoomEnabled(a)

\* C29 as stated: after any turn_on and turn_off calls every switch's
\* is_on is the enabled flag the gate reads, and no call has raised.
C29_SwitchesShowGatesAndNeverRaise ==
    SwitchesShowGates /\ ~switch_call.raised

\* The first half alone: is_on and the gate agree.
C29_SwitchesShowGates == SwitchesShowGates

\* A person switch was turned off: switch and gate say off, and the call
\* has raised.
C29_PersonTurnRaised ==
    /\ switch_call.kind = "person" /\ ~switch_call.on /\ switch_call.raised
    /\ ~is_on.people[switch_call.id]
    /\ ~IsPersonEnabled(switch_call.id)


\* A step of the running request, and a completed turn of a switch.
RequestStep == pc' # pc \/ log' # log

SwitchTurned == switch_call' # switch_call \/ is_on' # is_on \/ enabled' # enabled

\* The switch of the room at idx is off; the switch of the one configured
\* person the room at idx is announced for is off.
RoomSwitchOff == ~is_on.rooms[RoomInfo.area_id]

PersonSwitchOff ==
    /\ RoomTargetPerson # << >>
    /\ GetPersonConfig(RoomTargetPerson) # NoPerson
    /\ ~is_on.people[GetPersonConfig(RoomTargetPerson).person_entity]

\* The step appended one blocked event for the room at idx and moved on.
BlockedNow(reason) ==
    /\ Len(log') = Len(log) + 1
    /\ SubSeq(log', 1, Len(log)) = log
    /\ log'[Len(log')].k = "blocked"
    /\ log'[Len(log')].reason = reason
    /\ log'[Len(log')].area = RoomInfo.area_id
    /\ idx' = idx + 1

\* The calls and events logged for the room at idx since it passed its gate
\* are kept by the step, and no blocked event is added.
StaysDelivered ==
    /\ Len(log') >= Len(log)
    /\ SubSeq(log', 1, Len(log)) = log
    /\ \A n \in (Len(log) + 1)..Len(log') : log'[n].k # "blocked"
    /\ pc' \in {"chime_wait", "delay", "tts_wait", "room", "done", "raised"}
    /\ pc = "delay" => /\ pc' = "tts_wait"
                       /\ log'[Len(log')].k = "tts_call"
                       /\ log'[Len(log')].area = RoomInfo.area_id
    /\ pc = "chime_wait" => pc' \in {"delay", "tts_wait"}
    /\ pc' \in {"room", "done"} => log'[Len(log')].k \in {"sent", "log_call"}

\* C24: the gate of a room is read when the request reaches that room and
\* nowhere else.  A turn of a switch changes nothing of the running request;
\* the request's step at a room with a media player blocks the room exactly
\* when the room's switch is off at that moment (else the person exactly
\* when the single target's switch is off), whatever the switches showed
\* while earlier rooms were delivered, and makes no capability call for a
\* blocked room; and once a room is past its gate, every later step of its
\* delivery goes on to the chime, the delay, the TTS call and the sent
\* event whatever the switches show by then.
C24_GateReadLiveOncePerRoom ==
    [][ /\ SwitchTurned => UNCHANGED <<request, pc, err, target_rooms, idx, cur, log>>
        /\ (RequestStep /\ pc = "room" /\ Truthy(RoomInfo.media_player)) =>
              /\ BlockedNow("room_disabled") <=> RoomSwitchOff
              /\ BlockedNow("person_disabled") <=> (~RoomSwitchOff /\ PersonSwitchOff)
              /\ (~RoomSwitchOff /\ ~PersonSwitchOff) =>
                    /\ idx' = idx
                    /\ pc' \in {"ai_wait", "chime_wait", "tts_wait"}
                    /\ log'[Len(log')].k \in {"ai_call", "chime_call", "tts_call"}
                    /\ log'[Len(log')].area = RoomInfo.area_id
        /\ (RequestStep /\ pc \in {"ai_wait", "chime_wait", "delay", "tts_wait"}) =>
              StaysDelivered
      ]_vars

\* The request has two rooms with a media player.  While the first was being
\* delivered (after its gate, at one of its awaits) both rooms' switches
\* were turned off, the second last: the first room was sent all the same,
\* and the second room was blocked without any call.
C24_Witness ==
    /\ Len(target_rooms) = 2 /\ HasDevice(1) /\ HasDevice(2)
    /\ switch_call.kind = "room" /\ ~switch_call.on
    /\ switch_call.id = AreaOf(2)
    /\ switch_call.at_idx = 1
    /\ switch_call.at_pc \in {"ai_wait", "chime_wait", "delay", "tts_wait"}
    /\ RoomOff(AreaOf(1)) /\ RoomOff(AreaOf(2))
    /\ Of("tts_call", AreaOf(1)) # {} /\ Of("sent", AreaOf(1)) # {}
    /\ Of("blocked", AreaOf(1)) = {}
    /\ Of("blocked", AreaOf(2)) # {}
    /\ Of("chime_call", AreaOf(2)) = {} /\ Of("tts_call", AreaOf(2)) = {}
    /\ pc = "done"

\* A person switch turned off while the request was at the gate of the one
\* room of its single target blocks that person.
C24_WitnessPerson ==
    /\ Len(target_rooms) = 1
    /\ switch_call.kind = "person" /\ ~switch_call.on
    /\ switch_call.at_pc = "room" /\ switch_call.at_idx = 1
    /\ \E n \in LogIdx : log[n].k = "blocked" /\ log[n].reason = "person_disabled"
    /\ pc = "done"


C26_DroppedWithLoadedEntry ==
    /\ dispatch.called /\ dispatch.outcome = "not_initialized"
    /\ dispatch.loaded # {}
    /\ dispatch.entry \notin dispatch.loaded

\* C27: the announce service is registered exactly when the data of some
\* entry is in the shared registry, after any setups and unloads of any of
\* the entries.
C27_ServiceIffSomeEntry == (service # "") <=> (hass_data # {})

\* Both entries were set up, the one that registered the service was
\* unloaded, and the service is still there for the other one.
C27_Witness ==
    /\ service # ""
    /\ hass_data # {}
    /\ service \notin hass_data
    /\ adding = {}

\* The last entry was unloaded after a call had been served: no service.
C27_WitnessRemoved ==
    /\ dispatch.called
    /\ hass_data = {}
    /\ service = ""

\* Every configured person and room passes its gate.
AllEnabled ==
    /\ \A e \in PersonIds : IsPersonEnabled(e)
    /\ \A a \in RoomIds : IsRoomEnabled(a)

\* C28: a person or room without a recorded state is enabled; right after
\* async_setup_entry stored the entry's data (first setup or reload) every
\* configured person and room is enabled, and right after the switches were
\* added each of them is recorded as enabled and its switch is on, whatever
\* was muted before.
C28_EnabledByDefaultAndAfterSetup ==
    [][ /\ \A e \in PersonIds : e \notin DOMAIN enabled.people => IsPersonEnabled(e)
        /\ \A a \in RoomIds : a \notin DOMAIN enabled.rooms => IsRoomEnabled(a)
        /\ (E1 \in adding' /\ E1 \notin adding) => AllEnabled'
        /\ (E1 \in adding /\ E1 \notin adding') =>
              /\ AllEnabled'
              /\ enabled' = AllOn
              /\ is_on' = CreatedSwitches
      ]_vars

\* The last turn of a switch muted a room; the entry was reloaded afterwards
\* and its switches are added: the room is enabled again.
C28_Witness ==
    /\ switch_call.kind = "room" /\ ~switch_call.on
    /\ E1 \in hass_data /\ E1 \notin adding
    /\ IsRoomEnabled(switch_call.id)
    /\ is_on.rooms[switch_call.id]
    /\ AllEnabled

\* The entry's data is stored and its switches are not added yet: nothing
\* is recorded, and everybody passes.
C28_WitnessNothingRecorded ==
    /\ E1 \in adding
    /\ enabled = FreshRegistry
    /\ switch_call.kind = "person" /\ ~switch_call.on
    /\ AllEnabled


\* Room tracking is off for the request: by its own room_tracking value
\* when it has one, else by the configuration; presence verification is on
\* for the request.
TrackingOff ==
    IF request.room_tracking # "none" THEN request.room_tracking = "false"
    ELSE ~entry_data.room_tracking

PresenceOn ==
    IF request.presence_verification # "none" THEN request.presence_verification = "true"
    ELSE entry_data.presence_verification

\* C30: for a request that names configured people and no area, with room
\* tracking off and some named person home, no room is chosen by a lookup
\* of a person's room (no target carries a target person, and the tracking
\* signals play no part): the targets are the configured rooms that have a
\* sensor "on" when presence verification is on for the request, and none
\* when it is off; with no target, async_announce raises the person-not-home
\* error before any room is processed, also when neither flag is on and
\* rooms with a media player exist.
C30_TrackingOffTargetRequest ==
    (pc # "called" /\ PeopleRequest /\ TrackingOff
        /\ (\E k \in 1..Len(TargetNames) : NameIsHome(k))) =>
        \E sensed \in { IF PresenceOn THEN AreasWithSensorOn ELSE {} } :
            /\ TargetsAre(sensed)
            /\ (sensed \cap RoomIds = {}) <=> RaisedEarly("person_not_home")
            /\ ~PresenceOn => RaisedEarly("person_not_home")

\* Tracking is switched off by the request itself while the configuration
\* has it on; Mike is named, home and tracked to the kitchen; presence is
\* on and only the office sensor is on: the office is the one target, with
\* no target person, and the kitchen is none.
C30_Witness ==
    /\ pc # "called" /\ PeopleRequest /\ TrackingOff
    /\ request.room_tracking = "false" /\ entry_data.room_tracking
    /\ PresenceOn
    /\ \E k \in 1..Len(TargetNames) : NameIsHome(k)
    /\ tracker[PersonId("mike", "")].state = Str("kitchen", "", "Ti")
    /\ Len(target_rooms) = 1
    /\ AreaOf(1) \in AreasWithSensorOn
    /\ AreaOf(1).b # "kitchen"
    /\ ~target_rooms[1].has_target_person

\* Tracking and presence both off, the named person home, rooms with a
\* media player configured: the request ends with the person-not-home error.
C30_WitnessNoBroadcast ==
    /\ PeopleRequest /\ TrackingOff /\ ~PresenceOn
    /\ \E k \in 1..Len(TargetNames) : NameIsHome(k)
    /\ \E i \in RoomIdx : Truthy(ROOMS[i].media_player)
    /\ RaisedEarly("person_not_home")


\* C25 as stated: every capability call issued for a request carries the
\* context that request was called with and is built from the
\* configuration that request loaded when it started.
C25_CallsCarryOwnContextAndConfig ==
    \A r \in Requesters :
        \A n \in 1..Len(conc.requests[r].calls) :
            /\ conc.requests[r].calls[n].context = conc.requests[r].context
            /\ conc.requests[r].calls[n].config = conc.requests[r].config

\* Two service calls (neither with a context) and a saved option in
\* between: a play_media call of the request that started first was built
\* from the configuration the other request loaded.
C25_ChimeFromOtherConfig ==
    \E r \in Requesters, q \in Requesters :
        /\ r # q
        /\ conc.requests[r].context = "none" /\ conc.requests[q].context = "none"
        /\ conc.requests[q].pc # "idle"
        /\ conc.requests[r].config # conc.requests[q].config
        /\ \E n \in 1..Len(conc.requests[r].calls) :
             /\ conc.requests[r].calls[n].kind = "play_media"
             /\ conc.requests[r].calls[n].config = conc.requests[q].config

\* Two calls of async_announce with contexts of their own: tts.speak of the
\* one that started first carried the context of the other.
C25_SpeakWithOtherContext ==
    \E r \in Requesters, q \in Requesters :
        /\ r # q
        /\ conc.requests[r].context = "ctx_a" /\ conc.requests[q].context = "ctx_b"
        /\ \E n \in 1..Len(conc.requests[r].calls) :
             /\ conc.requests[r].calls[n].kind = "tts.speak"
             /\ conc.requests[r].calls[n].context = "ctx_b"

=============================================================================
